---- MODULE Spec2Model ----
(***************************************************************************)
(* Bounded-cycle subscriptions of the Slack payment bot.                   *)
(*                                                                         *)
(* The Builder (payment/stripe_generator.go) creates a product, a price    *)
(* and a payment link at the provider and writes the cycle-limit policy    *)
(* into the link's subscription metadata.  The provider instantiates       *)
(* subscriptions from the link and delivers webhooks.  The Enforcer        *)
(* (handlers, StripeWebhookHandler) reads the metadata of a                *)
(* customer.subscription.created event and schedules the cancellation.     *)
(*                                                                         *)
(* Go's int64 values are kept at their width: an int64 is a sequence of    *)
(* eight bytes (little endian, two's complement), and the arithmetic on    *)
(* them wraps modulo 2^64 as the compiled code does.  Text is a sequence   *)
(* of one-character strings, so that formatting and parsing are computed.  *)
(***************************************************************************)
EXTENDS Integers, Sequences, FiniteSets, TLC

(***************************************************************************)
(* Natural numbers of any size: little-endian sequences of bytes without   *)
(* a leading zero byte (zero is the empty sequence).                       *)
(***************************************************************************)
Limb(a, i) == IF i <= Len(a) THEN a[i] ELSE 0

MaxOf(x, y) == IF x >= y THEN x ELSE y

RECURSIVE BNNorm(_)
BNNorm(a) ==
    IF a = <<>> THEN <<>>
    ELSE IF a[Len(a)] = 0 THEN BNNorm(SubSeq(a, 1, Len(a) - 1))
    ELSE a

RECURSIVE BNFromNat(_)
BNFromNat(n) == IF n = 0 THEN <<>> ELSE <<n % 256>> \o BNFromNat(n \div 256)

RECURSIVE BNAddFrom(_, _, _, _)
BNAddFrom(a, b, i, carry) ==
    IF i > MaxOf(Len(a), Len(b))
    THEN (IF carry = 0 THEN <<>> ELSE <<carry>>)
    ELSE LET s == Limb(a, i) + Limb(b, i) + carry
         IN  <<s % 256>> \o BNAddFrom(a, b, i + 1, s \div 256)

BNAdd(a, b) == BNNorm(BNAddFrom(a, b, 1, 0))

\* a - b for a >= b
RECURSIVE BNSubFrom(_, _, _, _)
BNSubFrom(a, b, i, borrow) ==
    IF i > Len(a) THEN <<>>
    ELSE LET d == Limb(a, i) - Limb(b, i) - borrow
         IN  IF d < 0 THEN <<d + 256>> \o BNSubFrom(a, b, i + 1, 1)
             ELSE <<d>> \o BNSubFrom(a, b, i + 1, 0)

BNSub(a, b) == BNNorm(BNSubFrom(a, b, 1, 0))

\* -1, 0, 1 as a < b, a = b, a > b (a and b without leading zero bytes)
RECURSIVE BNCmpFrom(_, _, _)
BNCmpFrom(a, b, i) ==
    IF i = 0 THEN 0
    ELSE IF a[i] < b[i] THEN -1
    ELSE IF a[i] > b[i] THEN 1
    ELSE BNCmpFrom(a, b, i - 1)

BNCmp(a, b) ==
    IF Len(a) < Len(b) THEN -1
    ELSE IF Len(a) > Len(b) THEN 1
    ELSE BNCmpFrom(a, b, Len(a))

\* a * k for a machine-small k (k < 2^23)
RECURSIVE BNMulSmallFrom(_, _, _, _)
BNMulSmallFrom(a, k, i, carry) ==
    IF i > Len(a) THEN BNFromNat(carry)
    ELSE LET p == a[i] * k + carry
         IN  <<p % 256>> \o BNMulSmallFrom(a, k, i + 1, p \div 256)

BNMulSmall(a, k) == BNNorm(BNMulSmallFrom(a, k, 1, 0))

RECURSIVE BNMul(_, _)
BNMul(a, b) ==
    IF b = <<>> \/ a = <<>> THEN <<>>
    ELSE LET rest == BNMul(a, Tail(b))
         IN  BNAdd(BNMulSmall(a, b[1]),
                   IF rest = <<>> THEN <<>> ELSE <<0>> \o rest)

\* quotient and remainder of a by a machine-small k (0 < k < 2^23)
RECURSIVE BNDivSmallFrom(_, _, _, _, _)
BNDivSmallFrom(a, k, i, rem, acc) ==
    IF i = 0 THEN [q |-> BNNorm(acc), r |-> rem]
    ELSE LET cur == rem * 256 + a[i]
         IN  BNDivSmallFrom(a, k, i - 1, cur % k, <<cur \div k>> \o acc)

BNDivSmall(a, k) == BNDivSmallFrom(a, k, Len(a), 0, <<>>)

(***************************************************************************)
(* Mathematical integers: a sign and a magnitude.                          *)
(***************************************************************************)
ZMake(neg, mag) == [neg |-> neg /\ mag # <<>>, mag |-> mag]

ZFromInt(n) == IF n < 0 THEN ZMake(TRUE, BNFromNat(-n)) ELSE ZMake(FALSE, BNFromNat(n))

ZAdd(x, y) ==
    IF x.neg = y.neg THEN ZMake(x.neg, BNAdd(x.mag, y.mag))
    ELSE IF BNCmp(x.mag, y.mag) >= 0 THEN ZMake(x.neg, BNSub(x.mag, y.mag))
    ELSE ZMake(y.neg, BNSub(y.mag, x.mag))

ZMul(x, y) == ZMake(x.neg # y.neg, BNMul(x.mag, y.mag))

ZLess(x, y) ==
    IF x.neg # y.neg THEN x.neg
    ELSE IF x.neg THEN BNCmp(x.mag, y.mag) > 0
    ELSE BNCmp(x.mag, y.mag) < 0

(***************************************************************************)
(* int64: eight bytes, two's complement.                                   *)
(***************************************************************************)
TwoTo64 == <<0, 0, 0, 0, 0, 0, 0, 0, 1>>

TwoTo63 == <<0, 0, 0, 0, 0, 0, 0, 128>>

Wrap64(a) == [i \in 1..8 |-> Limb(a, i)]

I64IsNeg(x) == x[8] >= 128

I64Zero == Wrap64(<<>>)

\* the magnitude of x as a natural number
I64Mag(x) == IF I64IsNeg(x) THEN BNSub(TwoTo64, BNNorm(x)) ELSE BNNorm(x)

I64ToZ(x) == ZMake(I64IsNeg(x), I64Mag(x))

\* conversion to int64 keeps the low 64 bits
I64FromZ(z) ==
    LET low == BNNorm(Wrap64(z.mag))
    IN  IF z.neg /\ low # <<>> THEN Wrap64(BNSub(TwoTo64, low)) ELSE Wrap64(low)

I64(n) == I64FromZ(ZFromInt(n))

I64Mul(x, y) == Wrap64(BNMul(BNNorm(x), BNNorm(y)))

I64Add(x, y) == Wrap64(BNAdd(BNNorm(x), BNNorm(y)))

\* x > 0 and x <= 0 on int64
I64Positive(x) == ~I64IsNeg(x) /\ x # I64Zero

\* x / k and x % k of Go (truncated towards zero) for 0 < k < 2^23
I64Quo(x, k) ==
    I64FromZ(ZMake(I64IsNeg(x), BNDivSmall(I64Mag(x), k).q))

I64Rem(x, k) ==
    LET r == BNDivSmall(I64Mag(x), k).r
    IN  IF I64IsNeg(x) THEN -r ELSE r

(***************************************************************************)
(* Text: sequences of one-character strings.                               *)
(***************************************************************************)
Digits == <<"0", "1", "2", "3", "4", "5", "6", "7", "8", "9">>

IsDigit(c) == \E d \in 1..10 : Digits[d] = c

DigitVal(c) == (CHOOSE d \in 1..10 : Digits[d] = c) - 1

RECURSIVE BNDecimal(_)
BNDecimal(a) ==
    IF a = <<>> THEN <<>>
    ELSE LET qr == BNDivSmall(a, 10)
         IN  Append(BNDecimal(qr.q), Digits[qr.r + 1])

\* Variant: the value is narrowed to 32 bits before it is formatted.
FormatIntNarrowed(x) ==
    LET low == BNNorm(SubSeq(x, 1, 4))
    IN  IF low = <<>> THEN <<"0">> ELSE BNDecimal(low)

\* fmt.Sprintf("%d", x) for an int64 x
FormatInt(x) ==
    IF x = I64Zero THEN <<"0">>
    ELSE (IF I64IsNeg(x) THEN <<"-">> ELSE <<>>) \o BNDecimal(I64Mag(x))

\* the decimal text of a mathematical integer
ZFormat(z) ==
    IF z.mag = <<>> THEN <<"0">>
    ELSE (IF z.neg THEN <<"-">> ELSE <<>>) \o BNDecimal(z.mag)

\* strconv.ParseUint(s, 10, 64): the digits' value; any other byte is a
\* syntax error, a value of 2^64 or more a range error
RECURSIVE ParseUintFrom(_, _, _)
ParseUintFrom(s, i, acc) ==
    IF i > Len(s) THEN [err |-> "none", val |-> acc]
    ELSE IF ~IsDigit(s[i]) THEN [err |-> "syntax", val |-> <<>>]
    ELSE LET n == BNAdd(BNMulSmall(acc, 10), BNFromNat(DigitVal(s[i])))
         IN  IF BNCmp(n, TwoTo64) >= 0
             THEN [err |-> "range", val |-> <<>>]
             ELSE ParseUintFrom(s, i + 1, n)

ParseUint(s) ==
    IF s = <<>> THEN [err |-> "syntax", val |-> <<>>] ELSE ParseUintFrom(s, 1, <<>>)

\* strconv.ParseInt(s, 10, 64): an optional sign, then ParseUint; the value
\* must lie in -2^63 .. 2^63 - 1
ParseInt(s) ==
    IF s = <<>> THEN [err |-> "syntax", val |-> I64Zero]
    ELSE LET neg  == s[1] = "-"
             body == IF s[1] \in {"+", "-"} THEN Tail(s) ELSE s
             un   == ParseUint(body)
         IN  IF un.err = "syntax" THEN [err |-> "syntax", val |-> I64Zero]
             ELSE IF un.err = "range" THEN [err |-> "range", val |-> I64Zero]
             ELSE IF ~neg /\ BNCmp(un.val, TwoTo63) >= 0
                  THEN [err |-> "range", val |-> I64Zero]
             ELSE IF neg /\ BNCmp(un.val, TwoTo63) > 0
                  THEN [err |-> "range", val |-> I64Zero]
             ELSE [err |-> "none", val |-> I64FromZ(ZMake(neg, un.val))]

\* strings.TrimSpace
RECURSIVE TrimLeft(_)
TrimLeft(s) == IF s # <<>> /\ s[1] = " " THEN TrimLeft(Tail(s)) ELSE s

RECURSIVE TrimRight(_)
TrimRight(s) ==
    IF s # <<>> /\ s[Len(s)] = " " THEN TrimRight(SubSeq(s, 1, Len(s) - 1)) ELSE s

TrimSpace(s) == TrimRight(TrimLeft(s))

(***************************************************************************)
(* Time.  A reading of the clock is [sec, nsec]; a time.Duration is an     *)
(* int64 count of nanoseconds.                                             *)
(***************************************************************************)
Second == I64(1000000000)

Hour == I64Mul(I64(3600), Second)

\* d / 1e9 and d % 1e9 (truncated towards zero), in steps of 1000
DurationSeconds(d) == I64Quo(I64Quo(I64Quo(d, 1000), 1000), 1000)

DurationNanos(d) ==
    I64Rem(d, 1000) + 1000 * I64Rem(I64Quo(d, 1000), 1000)
        + 1000000 * I64Rem(I64Quo(I64Quo(d, 1000), 1000), 1000)

\* t.Add(d).Unix(): the seconds of t plus the whole seconds of d, with the
\* carry of the nanoseconds
AddUnix(t, d) ==
    LET nsec == t.nsec + DurationNanos(d)
        dsec == DurationSeconds(d)
        adj  == IF nsec >= 1000000000 THEN 1 ELSE IF nsec < 0 THEN -1 ELSE 0
    IN  I64Add(I64Add(I64(t.sec), dsec), I64(adj))

(***************************************************************************)
(* Bounds of the model.                                                    *)
(***************************************************************************)
MaxSubmissions == 1

MaxSubs == 1

MaxDeliveries == 2

MaxTicks == 1

MaxInvoices == 2

MaxInvocations == 2

StartSec == 1700000000

TickSec == 3000000

TickNsec == 600000000

(***************************************************************************)
(* Texts the program and its inputs use.                                   *)
(***************************************************************************)
DAY == <<"d", "a", "y">>

WEEK == <<"w", "e", "e", "k">>

MONTH == <<"m", "o", "n", "t", "h">>

YEAR == <<"y", "e", "a", "r">>

ProviderStripe == "stripe"

ProviderAirwallex == "airwallex"

Nil == [present |-> FALSE]

EmptyMap == [k \in {} |-> <<>>]

(***************************************************************************)
(* The Builder: payment/stripe_generator.go                                *)
(***************************************************************************)
calculateEndTimestamp(interval, intervalCount, endDateCycles, now) ==
    IF ~I64Positive(endDateCycles) THEN I64Zero
    ELSE LET n == I64Mul(intervalCount, endDateCycles)
             duration ==
                 CASE interval = DAY   -> I64Mul(I64Mul(n, I64(24)), Hour)
                   [] interval = WEEK  -> I64Mul(I64Mul(I64Mul(n, I64(7)), I64(24)), Hour)
                   [] interval = MONTH -> I64Mul(I64Mul(I64Mul(n, I64(30)), I64(24)), Hour)
                   [] interval = YEAR  -> I64Mul(I64Mul(I64Mul(n, I64(365)), I64(24)), Hour)
                   [] OTHER            -> I64Mul(I64Mul(I64Mul(n, I64(30)), I64(24)), Hour)
         IN  AddUnix(now, duration)

\* Variant: the recurring block is set whenever an interval is given.
buildPriceParamsByInterval(data, productID) ==
    [Currency  |-> "usd",
     Amount    |-> data.Amount,
     Product   |-> productID,
     Recurring |->
        IF data.IsSubscription \/ data.Interval # <<>>
        THEN [present       |-> TRUE,
              Interval      |-> IF data.Interval = <<>> THEN MONTH ELSE data.Interval,
              IntervalCount |-> IF ~I64Positive(data.IntervalCount)
                                THEN I64(1) ELSE data.IntervalCount]
        ELSE Nil]

\* The price parameters; the amount is kept as parsed (its conversion to
\* cents is not part of the model).
buildPriceParams(data, productID) ==
    [Currency  |-> "usd",
     Amount    |-> data.Amount,
     Product   |-> productID,
     Recurring |->
        IF data.IsSubscription
        THEN [present       |-> TRUE,
              Interval      |-> IF data.Interval = <<>> THEN MONTH ELSE data.Interval,
              IntervalCount |-> IF ~I64Positive(data.IntervalCount)
                                THEN I64(1) ELSE data.IntervalCount]
        ELSE Nil]

\* Variant: the cycle keys are written for every subscription whose
\* EndDateCycles is not negative (>= 0 in place of > 0).
buildPaymentLinkParamsFromZero(data, priceID, now) ==
    IF ~data.IsSubscription
    THEN [Price             |-> priceID,
          Quantity          |-> 1,
          CustomerCreation  |-> "always",
          SetupFutureUsage  |-> "off_session",
          SubscriptionData  |-> Nil]
    ELSE LET base == ("service_name" :> data.ServiceName)
                        @@ ("reference_number" :> data.ReferenceNumber)
             endTimestamp == calculateEndTimestamp(data.Interval, data.IntervalCount,
                                                   data.EndDateCycles, now)
             metadata ==
                 IF ~I64IsNeg(data.EndDateCycles)
                 THEN base @@ ("end_date_cycles" :> FormatInt(data.EndDateCycles))
                           @@ ("end_timestamp" :> FormatInt(endTimestamp))
                           @@ ("interval" :> data.Interval)
                           @@ ("interval_count" :> FormatInt(data.IntervalCount))
                 ELSE base
         IN  [Price             |-> priceID,
              Quantity          |-> 1,
              CustomerCreation  |-> "",
              SetupFutureUsage  |-> "",
              SubscriptionData  |-> [present |-> TRUE, Metadata |-> metadata]]

buildPaymentLinkParams(data, priceID, now) ==
    IF ~data.IsSubscription
    THEN [Price             |-> priceID,
          Quantity          |-> 1,
          CustomerCreation  |-> "always",
          SetupFutureUsage  |-> "off_session",
          SubscriptionData  |-> Nil]
    ELSE LET base == ("service_name" :> data.ServiceName)
                        @@ ("reference_number" :> data.ReferenceNumber)
             endTimestamp == calculateEndTimestamp(data.Interval, data.IntervalCount,
                                                   data.EndDateCycles, now)
             metadata ==
                 IF I64Positive(data.EndDateCycles)
                 THEN base @@ ("end_date_cycles" :> FormatInt(data.EndDateCycles))
                           @@ ("end_timestamp" :> FormatInt(endTimestamp))
                           @@ ("interval" :> data.Interval)
                           @@ ("interval_count" :> FormatInt(data.IntervalCount))
                 ELSE base
         IN  [Price             |-> priceID,
              Quantity          |-> 1,
              CustomerCreation  |-> "",
              SetupFutureUsage  |-> "",
              SubscriptionData  |-> [present |-> TRUE, Metadata |-> metadata]]

(***************************************************************************)
(* The modal submission: services/slack_service.go                         *)
(***************************************************************************)
\* strconv.ParseFloat for plain decimals (an optional sign, digits, at most
\* one point) and NaN; the value is kept as its sign and its text.
ParseFloat(s) ==
    LET neg  == s # <<>> /\ s[1] = "-"
        body == IF s # <<>> /\ s[1] \in {"+", "-"} THEN Tail(s) ELSE s
        pts  == {i \in 1..Len(body) : body[i] = "."}
        digs == {i \in 1..Len(body) : IsDigit(body[i])}
    IN  IF body = <<"N", "a", "N">> /\ body = s
        THEN [err |-> FALSE, nan |-> TRUE, sign |-> 0, text |-> s]
        ELSE IF digs = {} \/ Cardinality(pts) > 1 \/ (pts \cup digs) # 1..Len(body)
        THEN [err |-> TRUE, nan |-> FALSE, sign |-> 0, text |-> s]
        ELSE [err  |-> FALSE, nan |-> FALSE,
              sign |-> IF \A i \in digs : body[i] = "0" THEN 0
                       ELSE IF neg THEN -1 ELSE 1,
              text |-> s]

\* amount <= 0 on float64 (false for NaN)
FloatNotPositive(f) == ~f.nan /\ f.sign <= 0

GoodAmount == <<"2", "9", ".", "9", "9">>

AmountInputs == {<<"a">>, <<"0">>, GoodAmount}

ServiceInputs == {<<>>, <<"P">>}

ReferenceInputs == {<<"R">>}

IntervalInputs == {<<>>, WEEK, YEAR}

CountInputs == {<<>>, <<"3">>}

EndDateInputs == {<<>>, <<"0">>, <<"x">>, <<"-", "2">>, <<" ", "2">>, <<"3", "0", "0">>}

\* The values of a submitted modal.  The Stripe modal carries the
\* subscription blocks, the Airwallex modal the internal reference.
\* Every combination of the subscription fields with a good amount and
\* service, and every amount and service with the other fields at one value.
\* HandleSlackInteractions passes on any payload posted to it, so the
\* interval can also be a value the select does not offer, and the callback
\* identifier can end in a provider the bot does not know.  The amount is
\* free text: NaN is among the texts strconv.ParseFloat accepts.
ModalInputs ==
    [provider : {ProviderStripe}, amount : {GoodAmount}, service : {<<"P">>},
     reference : ReferenceInputs, subscription : BOOLEAN, interval : IntervalInputs,
     count : CountInputs, endDate : EndDateInputs, internalReference : {<<>>}]
    \cup
    [provider : {ProviderStripe}, amount : AmountInputs, service : ServiceInputs,
     reference : ReferenceInputs, subscription : {TRUE}, interval : {YEAR},
     count : {<<>>}, endDate : {<<"x">>, <<" ", "2">>}, internalReference : {<<>>}]
    \cup
    [provider : {ProviderStripe}, amount : {GoodAmount}, service : {<<"P">>},
     reference : ReferenceInputs, subscription : BOOLEAN, interval : {<<"q">>},
     count : {<<>>}, endDate : {<<>>, <<" ", "2">>}, internalReference : {<<>>}]
    \cup
    [provider : {ProviderStripe, "paypal"}, amount : {<<"N", "a", "N">>, GoodAmount},
     service : {<<"P">>}, reference : {<<>>}, subscription : {FALSE}, interval : {<<>>},
     count : {<<>>}, endDate : {<<>>}, internalReference : {<<>>}]
    \cup
    [provider : {ProviderAirwallex}, amount : AmountInputs, service : ServiceInputs,
     reference : ReferenceInputs, subscription : {FALSE}, interval : {<<>>},
     count : {<<>>}, endDate : {<<>>}, internalReference : {<<"I">>}]

\* Variant: an end date that does not parse or is not positive is ignored,
\* as the interval count is, instead of being answered with a field error.
ModalRequestLenient(v, now) ==
    LET amount == ParseFloat(v.amount)
        stripe == v.provider = ProviderStripe
        referenceNumber ==
            IF v.reference = <<>>
            THEN <<"R", "E", "F", "-">> \o FormatInt(I64(now.sec))
            ELSE v.reference
        isSubscription == stripe /\ v.subscription
        interval == IF stripe /\ v.interval # <<>> THEN v.interval ELSE MONTH
        count == ParseInt(v.count)
        intervalCount ==
            IF stripe /\ v.count # <<>> /\ count.err = "none" /\ I64Positive(count.val)
            THEN count.val ELSE I64(1)
        endDate == ParseInt(TrimSpace(v.endDate))
        hasEndDate == stripe /\ v.endDate # <<>>
                          /\ endDate.err = "none" /\ I64Positive(endDate.val)
        data == [Amount            |-> [nan |-> amount.nan, sign |-> amount.sign,
                                        text |-> amount.text],
                 ServiceName       |-> v.service,
                 ReferenceNumber   |-> referenceNumber,
                 IsSubscription    |-> isSubscription,
                 Interval          |-> interval,
                 IntervalCount     |-> intervalCount,
                 EndDateCycles     |-> IF hasEndDate THEN endDate.val ELSE I64Zero,
                 InternalReference |-> IF v.provider = ProviderAirwallex
                                       THEN v.internalReference ELSE <<>>]
    IN  IF amount.err \/ FloatNotPositive(amount)
        THEN [err |-> "amount_block", data |-> Nil]
        ELSE IF v.service = <<>>
        THEN [err |-> "service_block", data |-> Nil]
        ELSE [err |-> "none", data |-> data]

\* The validation and the construction of PaymentLinkData:
\* err is the block of the field error, or "none".
ModalRequest(v, now) ==
    LET amount == ParseFloat(v.amount)
        stripe == v.provider = ProviderStripe
        referenceNumber ==
            IF v.reference = <<>>
            THEN <<"R", "E", "F", "-">> \o FormatInt(I64(now.sec))
            ELSE v.reference
        isSubscription == stripe /\ v.subscription
        interval == IF stripe /\ v.interval # <<>> THEN v.interval ELSE MONTH
        count == ParseInt(v.count)
        intervalCount ==
            IF stripe /\ v.count # <<>> /\ count.err = "none" /\ I64Positive(count.val)
            THEN count.val ELSE I64(1)
        endDate == ParseInt(TrimSpace(v.endDate))
        hasEndDate == stripe /\ v.endDate # <<>>
        data == [Amount            |-> [nan |-> amount.nan, sign |-> amount.sign,
                                        text |-> amount.text],
                 ServiceName       |-> v.service,
                 ReferenceNumber   |-> referenceNumber,
                 IsSubscription    |-> isSubscription,
                 Interval          |-> interval,
                 IntervalCount     |-> intervalCount,
                 EndDateCycles     |-> IF hasEndDate THEN endDate.val ELSE I64Zero,
                 InternalReference |-> IF v.provider = ProviderAirwallex
                                       THEN v.internalReference ELSE <<>>]
    IN  IF amount.err \/ FloatNotPositive(amount)
        THEN [err |-> "amount_block", data |-> Nil]
        ELSE IF v.service = <<>>
        THEN [err |-> "service_block", data |-> Nil]
        ELSE IF hasEndDate /\ endDate.err # "none"
        THEN [err |-> "end_date_block", data |-> Nil]
        ELSE IF hasEndDate /\ ~I64Positive(endDate.val)
        THEN [err |-> "end_date_block", data |-> Nil]
        ELSE [err |-> "none", data |-> data]

(***************************************************************************)
(* State.                                                                  *)
(***************************************************************************)
VARIABLES
    ticks,        \* the clock: number of ticks since the start
    submissions,  \* modal submissions handled so far
    gen,          \* the submission being handled and its position in GenerateLink
    resp,         \* the response to the last submission
    products,     \* provider: products created
    prices,       \* provider: prices created
    links,        \* provider: payment links created
    builds,       \* history: every invocation of buildPaymentLinkParams
    subs,         \* provider: subscriptions
    deliveries,   \* history: every request HandleWebhook handled
    submitted,    \* history: the values of every modal submission handled
    creations,    \* history: every product.New, price.New and paymentlink.New call
                  \* with the request it was made for
    counterChannel, \* Slack: the texts of the channel's messages, oldest first
    invoiceProc,    \* each invoice submission's position and invoice number
    invoicesSent,   \* history: every invoice sent
    stripeKey,      \* the package variable stripe.Key
    keyProc,        \* concurrent invocations: position, own key, calls made
    keyCalls,       \* history: the key each provider call was made with
    httpLog         \* history: the requests the server's mux answered

vars == <<ticks, submissions, gen, resp, products, prices, links, builds, subs, deliveries,
         submitted, creations, counterChannel, invoiceProc, invoicesSent,
         stripeKey, keyProc, keyCalls, httpLog>>

invoiceVars == <<counterChannel, invoiceProc, invoicesSent>>

keyVars == <<stripeKey, keyProc, keyCalls>>

serverVars == <<stripeKey, keyProc, keyCalls, httpLog>>

linkVars ==
    <<ticks, submissions, gen, resp, products, prices, links, builds, subs, deliveries,
      submitted, creations>>

\* time.Now()
Now == [sec |-> StartSec + ticks * TickSec, nsec |-> (ticks * TickNsec) % 1000000000]

Idle == [pc |-> "idle"]

\* The key of the configuration (STRIPE_API_KEY) and another key of the
\* account, as texts of the model.
ConfigKey == <<"s", "k">>

OtherKey == <<"r", "k">>

\* The invocations that run concurrently: two of GenerateLink and one of
\* scheduleSubscriptionCancellation.
KeyProcs == {"GenerateLink1", "GenerateLink2", "scheduleSubscriptionCancellation"}

NoResponse == [action |-> "none", block |-> "", stage |-> "", link |-> 0]

Init ==
    /\ ticks = 0
    /\ submissions = 0
    /\ gen = Idle
    /\ resp = NoResponse
    /\ products = <<>>
    /\ prices = <<>>
    /\ links = <<>>
    /\ builds = <<>>
    /\ subs = <<>>
    /\ deliveries = <<>>
    /\ submitted = <<>>
    /\ creations = <<>>
    /\ counterChannel = <<>>
    /\ invoiceProc = [p \in 1..MaxInvoices |-> [pc |-> "new"]]
    /\ invoicesSent = <<>>
    /\ stripeKey = <<>>
    /\ keyProc = [p \in KeyProcs |-> [pc |-> "start", key |-> ConfigKey, calls |-> 0]]
    /\ keyCalls = <<>>
    /\ httpLog = <<>>

Tick ==
    /\ ticks < MaxTicks
    /\ ticks' = ticks + 1
    /\ UNCHANGED <<submissions, gen, resp, products, prices, links, builds, subs, deliveries, submitted, creations, invoiceVars, serverVars>>

\* respondWithError(w, blockID, message)
respondWithError(blockID, stage) ==
    [action |-> "errors", block |-> blockID, stage |-> stage, link |-> 0]

\* ProcessModalSubmission up to the call of the generator, with the dispatch
\* of GenerateLinkForProvider
ProcessModalSubmission(v) ==
    /\ gen.pc = "idle"
    /\ submissions < MaxSubmissions
    /\ submissions' = submissions + 1
    /\ LET r == ModalRequest(v, Now)
       IN  /\ submitted' = Append(submitted, [values |-> v, block |-> r.err])
           /\ IF r.err # "none"
              THEN /\ resp' = respondWithError(r.err, "validation")
                   /\ gen' = gen
              ELSE IF v.provider = ProviderStripe
              THEN /\ gen' = [pc |-> "product", provider |-> v.provider, data |-> r.data,
                              submission |-> Len(submitted) + 1]
                   /\ resp' = NoResponse
              ELSE IF v.provider = ProviderAirwallex
              THEN /\ gen' = [pc |-> "airwallex", provider |-> v.provider, data |-> r.data,
                              submission |-> Len(submitted) + 1]
                   /\ resp' = NoResponse
              ELSE /\ resp' = respondWithError("", "provider")
                   /\ gen' = gen
    /\ UNCHANGED <<ticks, products, prices, links, builds, subs, deliveries, creations, invoiceVars, serverVars>>

\* The Airwallex generator's GenerateLink: a link or an error.
AirwallexGenerateLink(ok) ==
    /\ gen.pc = "airwallex"
    /\ gen' = Idle
    /\ resp' = IF ok THEN [action |-> "ok", block |-> "", stage |-> "", link |-> 0]
               ELSE respondWithError("", "airwallex")
    /\ UNCHANGED <<ticks, submissions, products, prices, links, builds, subs, deliveries, submitted, creations, invoiceVars, serverVars>>

\* Variant: a product with the same name and description is used again
\* instead of a new one being created.
ProductNewReusing(ok) ==
    /\ gen.pc = "product"
    /\ LET new   == [Name |-> gen.data.ServiceName,
                     Description |-> gen.data.ReferenceNumber]
           found == {k \in 1..Len(products) : products[k] = new}
           id    == IF found # {} THEN CHOOSE k \in found : TRUE ELSE Len(products) + 1
       IN  /\ creations' = Append(creations,
                  [stage |-> "product", submission |-> gen.submission, data |-> gen.data,
                   uses |-> 0, returns |-> IF ok THEN id ELSE 0])
           /\ IF ok
              THEN /\ products' = IF found # {} THEN products ELSE Append(products, new)
                   /\ gen' = [pc |-> "price", provider |-> gen.provider, data |-> gen.data,
                              submission |-> gen.submission, productID |-> id]
                   /\ resp' = resp
              ELSE /\ products' = products
                   /\ gen' = Idle
                   /\ resp' = respondWithError("", "product")
    /\ UNCHANGED <<ticks, submissions, prices, links, builds, subs, deliveries, submitted, invoiceVars, serverVars>>

\* GenerateLink, first call: product.New
ProductNew(ok) ==
    /\ gen.pc = "product"
    /\ creations' = Append(creations,
           [stage |-> "product", submission |-> gen.submission, data |-> gen.data,
            uses |-> 0,
            returns |-> IF ok THEN Len(products) + 1 ELSE 0])
    /\ IF ok
       THEN /\ products' = Append(products, [Name |-> gen.data.ServiceName,
                                             Description |-> gen.data.ReferenceNumber])
            /\ gen' = [pc |-> "price", provider |-> gen.provider, data |-> gen.data,
                       submission |-> gen.submission, productID |-> Len(products) + 1]
            /\ resp' = resp
       ELSE /\ products' = products
            /\ gen' = Idle
            /\ resp' = respondWithError("", "product")
    /\ UNCHANGED <<ticks, submissions, prices, links, builds, subs, deliveries, submitted, invoiceVars, serverVars>>

\* Variant: the return after a failed price.New is missing, so the link is
\* created all the same.
PriceNewWithoutReturn(ok) ==
    /\ gen.pc = "price"
    /\ creations' = Append(creations,
           [stage |-> "price", submission |-> gen.submission, data |-> gen.data,
            uses |-> buildPriceParams(gen.data, gen.productID).Product,
            returns |-> IF ok THEN Len(prices) + 1 ELSE 0])
    /\ prices' = IF ok THEN Append(prices, buildPriceParams(gen.data, gen.productID))
                 ELSE prices
    /\ gen' = [pc |-> "link", provider |-> gen.provider, data |-> gen.data,
               submission |-> gen.submission,
               productID |-> gen.productID, priceID |-> IF ok THEN Len(prices) + 1 ELSE 0]
    /\ resp' = resp
    /\ UNCHANGED <<ticks, submissions, products, links, builds, subs, deliveries, submitted, invoiceVars, serverVars>>

\* GenerateLink, second call: buildPriceParams and price.New
PriceNew(ok) ==
    /\ gen.pc = "price"
    /\ creations' = Append(creations,
           [stage |-> "price", submission |-> gen.submission, data |-> gen.data,
            uses |-> buildPriceParams(gen.data, gen.productID).Product,
            returns |-> IF ok THEN Len(prices) + 1 ELSE 0])
    /\ IF ok
       THEN /\ prices' = Append(prices, buildPriceParams(gen.data, gen.productID))
            /\ gen' = [pc |-> "link", provider |-> gen.provider, data |-> gen.data,
                       submission |-> gen.submission,
                       productID |-> gen.productID, priceID |-> Len(prices) + 1]
            /\ resp' = resp
       ELSE /\ prices' = prices
            /\ gen' = Idle
            /\ resp' = respondWithError("", "price")
    /\ UNCHANGED <<ticks, submissions, products, links, builds, subs, deliveries, submitted, invoiceVars, serverVars>>

\* GenerateLink, third call: buildPaymentLinkParams and paymentlink.New; on
\* success the rest of ProcessModalSubmission (the message, the 200)
PaymentLinkNew(ok) ==
    /\ gen.pc = "link"
    /\ LET params == buildPaymentLinkParams(gen.data, gen.priceID, Now)
       IN  /\ creations' = Append(creations,
                  [stage |-> "link", submission |-> gen.submission, data |-> gen.data,
                   uses |-> params.Price,
                   returns |-> IF ok THEN Len(links) + 1 ELSE 0])
           /\ builds' = Append(builds,
                  [data |-> gen.data, now |-> Now, params |-> params,
                   submission |-> gen.submission, priceID |-> gen.priceID, linkID |-> IF ok THEN Len(links) + 1 ELSE 0])
           /\ IF ok
              THEN /\ links' = Append(links, params)
                   /\ resp' = [action |-> "ok", block |-> "", stage |-> "",
                               link |-> Len(links) + 1]
              ELSE /\ links' = links
                   /\ resp' = respondWithError("", "link")
    /\ gen' = Idle
    /\ UNCHANGED <<ticks, submissions, products, prices, subs, deliveries, submitted, invoiceVars, serverVars>>

(***************************************************************************)
(* The provider: subscriptions and events.                                 *)
(***************************************************************************)
TS1700 == <<"1", "7", "0", "0", "0", "0", "0", "0", "0", "0">>

\* Metadata of subscriptions of the account that no link of the Builder made
\* (the endpoint receives the events of every subscription of the account).
ForeignMetadata ==
    { ("end_date_cycles" :> <<"3">>),
      ("end_date_cycles" :> <<"-", "2">>) @@ ("end_timestamp" :> <<"-", "5">>),
      ("end_timestamp" :> TS1700),
      ("end_date_cycles" :> <<"x">>) @@ ("end_timestamp" :> TS1700),
      ("end_date_cycles" :> <<"6">>) @@ ("end_timestamp" :> <<"1", "7", "e", "9">>) }

NewSubscription(link, metadata) ==
    [link |-> link, Metadata |-> metadata, CancelAt |-> Nil, CancelAtPeriodEnd |-> FALSE]

\* A customer pays through a subscription link: the provider creates the
\* subscription and copies the link's subscription metadata onto it.
CheckoutSubscription(l) ==
    /\ Len(subs) < MaxSubs
    /\ links[l].SubscriptionData.present
    /\ subs' = Append(subs, NewSubscription(l, links[l].SubscriptionData.Metadata))
    /\ UNCHANGED <<ticks, submissions, gen, resp, products, prices, links, builds, deliveries, submitted, creations, invoiceVars, serverVars>>

\* A subscription of the account created otherwise (dashboard, API).
ForeignSubscription(md) ==
    /\ Len(subs) < MaxSubs
    /\ subs' = Append(subs, NewSubscription(0, md))
    /\ UNCHANGED <<ticks, submissions, gen, resp, products, prices, links, builds, deliveries, submitted, creations, invoiceVars, serverVars>>

EventTypes ==
    {"customer.subscription.created", "checkout.session.completed",
     "customer.subscription.updated"}

\* The events the provider signs: about a subscription that exists; the
\* created event carries the subscription with its metadata and, as every
\* subscription of the provider does, the customer that the handler
\* dereferences when it logs the event.  The events of the other types carry
\* the same metadata in their payload.
ProviderEvents ==
    { [type |-> t, id |-> i, parses |-> p, Metadata |-> subs[i].Metadata]
      : t \in EventTypes, i \in 1..Len(subs), p \in BOOLEAN }
    \ { [type |-> "customer.subscription.updated", id |-> i, parses |-> FALSE,
         Metadata |-> subs[i].Metadata] : i \in 1..Len(subs) }

\* Payloads anybody can post to the endpoint.
ForgedEvents ==
    { [type |-> "customer.subscription.created", id |-> i, parses |-> TRUE,
       Metadata |-> ("end_date_cycles" :> <<"1">>) @@ ("end_timestamp" :> TS1700)]
      : i \in {1} }

\* subscription.Update(id, params) at the provider
\* Variant: the update sets cancel_at_period_end and leaves cancel_at out.
SubscriptionUpdatePeriodEndOnly(subsNow, id, params) ==
    [subsNow EXCEPT ![id].CancelAtPeriodEnd = params.CancelAtPeriodEnd]

SubscriptionUpdate(subsNow, id, params) ==
    [subsNow EXCEPT ![id].CancelAt = [present |-> TRUE, at |-> params.CancelAt],
                    ![id].CancelAtPeriodEnd = params.CancelAtPeriodEnd]

(***************************************************************************)
(* The Enforcer: handlers, StripeWebhookHandler                            *)
(***************************************************************************)
\* Variant: a subscription that already has a cutoff is reported as an error.
scheduleRejectingRescheduling(subscriptionID, cancelAtTimestamp, subsNow, updateOk) ==
    LET params == [CancelAt |-> cancelAtTimestamp, CancelAtPeriodEnd |-> TRUE]
        ok     == updateOk /\ subscriptionID \in 1..Len(subsNow)
        again  == subscriptionID \in 1..Len(subsNow)
                      /\ subsNow[subscriptionID].CancelAt.present
    IN  [calls |-> <<[sub |-> subscriptionID, params |-> params, ok |-> ok]>>,
         err   |-> ~ok \/ again,
         subs  |-> IF ok THEN SubscriptionUpdate(subsNow, subscriptionID, params)
                   ELSE subsNow]

\* Variant: a subscription that already has a cutoff is skipped, no call made.
scheduleOnlyOnce(subscriptionID, cancelAtTimestamp, subsNow, updateOk) ==
    LET params == [CancelAt |-> cancelAtTimestamp, CancelAtPeriodEnd |-> TRUE]
        ok     == updateOk /\ subscriptionID \in 1..Len(subsNow)
        again  == subscriptionID \in 1..Len(subsNow)
                      /\ subsNow[subscriptionID].CancelAt.present
    IN  IF again THEN [calls |-> <<>>, err |-> FALSE, subs |-> subsNow]
        ELSE [calls |-> <<[sub |-> subscriptionID, params |-> params, ok |-> ok]>>,
              err   |-> ~ok,
              subs  |-> IF ok THEN SubscriptionUpdate(subsNow, subscriptionID, params)
                        ELSE subsNow]

\* Variant: a failed update is tried a second time.
scheduleRetrying(subscriptionID, cancelAtTimestamp, subsNow, updateOk) ==
    LET params == [CancelAt |-> cancelAtTimestamp, CancelAtPeriodEnd |-> TRUE]
        ok     == updateOk /\ subscriptionID \in 1..Len(subsNow)
        call   == [sub |-> subscriptionID, params |-> params, ok |-> ok]
    IN  [calls |-> IF ok THEN <<call>> ELSE <<call, call>>,
         err   |-> ~ok,
         subs  |-> IF ok THEN SubscriptionUpdate(subsNow, subscriptionID, params)
                   ELSE subsNow]

\* Variant: a failed update leaves the subscription without a cutoff.
scheduleClearingOnFailure(subscriptionID, cancelAtTimestamp, subsNow, updateOk) ==
    LET params == [CancelAt |-> cancelAtTimestamp, CancelAtPeriodEnd |-> TRUE]
        ok     == updateOk /\ subscriptionID \in 1..Len(subsNow)
    IN  [calls |-> <<[sub |-> subscriptionID, params |-> params, ok |-> ok]>>,
         err   |-> ~ok,
         subs  |-> IF ok THEN SubscriptionUpdate(subsNow, subscriptionID, params)
                   ELSE IF subscriptionID \in 1..Len(subsNow)
                   THEN [subsNow EXCEPT ![subscriptionID].CancelAt = Nil]
                   ELSE subsNow]

\* The calls made (each with the provider's answer), whether an error is
\* returned, and the provider's subscriptions afterwards.
scheduleSubscriptionCancellation(subscriptionID, cancelAtTimestamp, subsNow, updateOk) ==
    LET params == [CancelAt |-> cancelAtTimestamp, CancelAtPeriodEnd |-> TRUE]
        ok     == updateOk /\ subscriptionID \in 1..Len(subsNow)
    IN  [calls |-> <<[sub |-> subscriptionID, params |-> params, ok |-> ok]>>,
         err   |-> ~ok,
         subs  |-> IF ok THEN SubscriptionUpdate(subsNow, subscriptionID, params)
                   ELSE subsNow]

Dropped(outcome, subsNow) ==
    [outcome |-> outcome, calls |-> <<>>, endCycles |-> I64Zero, subs |-> subsNow]

\* Variant: the cycle limit is recognised by end_timestamp, so a subscription
\* with that key alone is scheduled.
handleSubscriptionCreatedByTimestamp(event, subsNow, updateOk) ==
    IF ~event.parses THEN Dropped("unparsable", subsNow)
    ELSE IF "end_timestamp" \notin DOMAIN event.Metadata
    THEN Dropped("unlimited", subsNow)
    ELSE LET endCycles    == IF "end_date_cycles" \in DOMAIN event.Metadata
                             THEN ParseInt(event.Metadata["end_date_cycles"])
                             ELSE [err |-> "none", val |-> I64Zero]
             endTimestamp == ParseInt(event.Metadata["end_timestamp"])
         IN  IF endCycles.err # "none" THEN Dropped("bad_end_date_cycles", subsNow)
             ELSE IF endTimestamp.err # "none" THEN Dropped("bad_end_timestamp", subsNow)
             ELSE LET r == scheduleSubscriptionCancellation(event.id, endTimestamp.val,
                                                            subsNow, updateOk)
                  IN  [outcome   |-> IF r.err THEN "schedule_failed" ELSE "scheduled",
                       calls     |-> r.calls,
                       endCycles |-> endCycles.val,
                       subs      |-> r.subs]

\* Variant: a missing end_timestamp is read as the zero value of the map
\* lookup, without the existence test, and the cutoff falls back to 0.
handleSubscriptionCreatedGuessing(event, subsNow, updateOk) ==
    IF ~event.parses THEN Dropped("unparsable", subsNow)
    ELSE IF "end_date_cycles" \notin DOMAIN event.Metadata
    THEN Dropped("unlimited", subsNow)
    ELSE LET endCycles    == ParseInt(event.Metadata["end_date_cycles"])
             endTimestamp == IF "end_timestamp" \in DOMAIN event.Metadata
                             THEN ParseInt(event.Metadata["end_timestamp"])
                             ELSE [err |-> "none", val |-> I64Zero]
         IN  IF endCycles.err # "none" THEN Dropped("bad_end_date_cycles", subsNow)
             ELSE IF endTimestamp.err # "none" THEN Dropped("bad_end_timestamp", subsNow)
             ELSE LET r == scheduleSubscriptionCancellation(event.id, endTimestamp.val,
                                                            subsNow, updateOk)
                  IN  [outcome   |-> IF r.err THEN "schedule_failed" ELSE "scheduled",
                       calls     |-> r.calls,
                       endCycles |-> endCycles.val,
                       subs      |-> r.subs]

\* Variant: an end_date_cycles that is not positive is dropped as an error.
handleSubscriptionCreatedPositiveOnly(event, subsNow, updateOk) ==
    IF ~event.parses THEN Dropped("unparsable", subsNow)
    ELSE IF "end_date_cycles" \notin DOMAIN event.Metadata
    THEN Dropped("unlimited", subsNow)
    ELSE IF "end_timestamp" \notin DOMAIN event.Metadata
    THEN Dropped("no_end_timestamp", subsNow)
    ELSE LET endCycles    == ParseInt(event.Metadata["end_date_cycles"])
             endTimestamp == ParseInt(event.Metadata["end_timestamp"])
         IN  IF endCycles.err # "none" \/ ~I64Positive(endCycles.val)
             THEN Dropped("bad_end_date_cycles", subsNow)
             ELSE IF endTimestamp.err # "none" THEN Dropped("bad_end_timestamp", subsNow)
             ELSE LET r == scheduleSubscriptionCancellation(event.id, endTimestamp.val,
                                                            subsNow, updateOk)
                  IN  [outcome   |-> IF r.err THEN "schedule_failed" ELSE "scheduled",
                       calls     |-> r.calls,
                       endCycles |-> endCycles.val,
                       subs      |-> r.subs]

handleSubscriptionCreated(event, subsNow, updateOk) ==
    IF ~event.parses THEN Dropped("unparsable", subsNow)
    ELSE IF "end_date_cycles" \notin DOMAIN event.Metadata
    THEN Dropped("unlimited", subsNow)
    ELSE IF "end_timestamp" \notin DOMAIN event.Metadata
    THEN Dropped("no_end_timestamp", subsNow)
    ELSE LET endCycles    == ParseInt(event.Metadata["end_date_cycles"])
             endTimestamp == ParseInt(event.Metadata["end_timestamp"])
         IN  IF endCycles.err # "none" THEN Dropped("bad_end_date_cycles", subsNow)
             ELSE IF endTimestamp.err # "none" THEN Dropped("bad_end_timestamp", subsNow)
             ELSE LET r == scheduleSubscriptionCancellation(event.id, endTimestamp.val,
                                                            subsNow, updateOk)
                  IN  [outcome   |-> IF r.err THEN "schedule_failed" ELSE "scheduled",
                       calls     |-> r.calls,
                       endCycles |-> endCycles.val,
                       subs      |-> r.subs]

handleCheckoutSessionCompleted(event, subsNow) ==
    IF ~event.parses THEN Dropped("unparsable", subsNow) ELSE Dropped("logged", subsNow)

\* Variant: a failure of the handler is answered with a server error.
AcknowledgeOrFail(handler, result) ==
    [status  |-> IF result.outcome \in {"schedule_failed", "unparsable"} THEN 500 ELSE 200,
     handler |-> handler] @@ result

\* w.WriteHeader(http.StatusOK) after the dispatch
Acknowledge(handler, result) == [status |-> 200, handler |-> handler] @@ result

\* Variant: the signature error is answered but the return is missing, so
\* the event is dispatched all the same.
WebhookResultDispatching(req, subsNow, updateOk) ==
    IF ~req.readOk
    THEN [status |-> 503, handler |-> "none"] @@ Dropped("unread", subsNow)
    ELSE LET status == IF req.sigOk THEN 200 ELSE 400
         IN  IF req.event.type = "checkout.session.completed"
             THEN [status |-> status, handler |-> "handleCheckoutSessionCompleted"]
                      @@ handleCheckoutSessionCompleted(req.event, subsNow)
             ELSE IF req.event.type = "customer.subscription.created"
             THEN [status |-> status, handler |-> "handleSubscriptionCreated"]
                      @@ handleSubscriptionCreated(req.event, subsNow, updateOk)
             ELSE [status |-> status, handler |-> "none"] @@ Dropped("unhandled", subsNow)

\* Variant: the subscription-updated event is handled like the created one.
WebhookResultOnUpdates(req, subsNow, updateOk) ==
    IF ~req.readOk
    THEN [status |-> 503, handler |-> "none"] @@ Dropped("unread", subsNow)
    ELSE IF ~req.sigOk
    THEN [status |-> 400, handler |-> "none"] @@ Dropped("unverified", subsNow)
    ELSE IF req.event.type = "checkout.session.completed"
    THEN Acknowledge("handleCheckoutSessionCompleted",
                     handleCheckoutSessionCompleted(req.event, subsNow))
    ELSE IF req.event.type \in {"customer.subscription.created",
                                "customer.subscription.updated"}
    THEN Acknowledge("handleSubscriptionCreated",
                     handleSubscriptionCreated(req.event, subsNow, updateOk))
    ELSE Acknowledge("none", Dropped("unhandled", subsNow))

\* The response and the effects of HandleWebhook on one request.
WebhookResult(req, subsNow, updateOk) ==
    IF ~req.readOk
    THEN [status |-> 503, handler |-> "none"] @@ Dropped("unread", subsNow)
    ELSE IF ~req.sigOk
    THEN [status |-> 400, handler |-> "none"] @@ Dropped("unverified", subsNow)
    ELSE IF req.event.type = "checkout.session.completed"
    THEN Acknowledge("handleCheckoutSessionCompleted",
                     handleCheckoutSessionCompleted(req.event, subsNow))
    ELSE IF req.event.type = "customer.subscription.created"
    THEN Acknowledge("handleSubscriptionCreated",
                     handleSubscriptionCreated(req.event, subsNow, updateOk))
    ELSE Acknowledge("none", Dropped("unhandled", subsNow))

\* The requests that reach the endpoint: the provider's events with a valid
\* signature, forged payloads without one, and bodies that cannot be read.
\* sigOk is the outcome of webhook.ConstructEvent, the only thing the code
\* tests.
WebhookRequests ==
    { [readOk |-> TRUE, sigOk |-> TRUE, event |-> e] : e \in ProviderEvents }
    \cup { [readOk |-> TRUE, sigOk |-> FALSE, event |-> e] : e \in ForgedEvents }
    \cup { [readOk |-> FALSE, sigOk |-> FALSE, event |-> e] : e \in ForgedEvents }

\* HandleWebhook on one request: the response, the calls and their effect
Delivery(req, updateOk) ==
    /\ LET r == WebhookResult(req, subs, updateOk)
       IN  /\ subs' = r.subs
           /\ deliveries' = Append(deliveries,
                  [req |-> req, status |-> r.status, handler |-> r.handler,
                   outcome |-> r.outcome, calls |-> r.calls, endCycles |-> r.endCycles,
                   before |-> subs, after |-> r.subs])
    /\ UNCHANGED <<ticks, submissions, gen, resp, products, prices, links, builds, submitted, creations, invoiceVars, serverVars>>

HandleWebhook(req, updateOk) ==
    /\ Len(deliveries) < MaxDeliveries
    /\ Delivery(req, updateOk)

\* subscription i has had a verified delivery of its created event that did
\* not end in a refused scheduling call
Notified(i) ==
    \E k \in 1..Len(deliveries) :
        /\ deliveries[k].req.readOk /\ deliveries[k].req.sigOk
        /\ deliveries[k].req.event.type = "customer.subscription.created"
        /\ deliveries[k].req.event.parses
        /\ deliveries[k].req.event.id = i
        /\ deliveries[k].outcome # "schedule_failed"

\* The provider delivers the created event of subscription i, signed and
\* well formed, and accepts the update call.
ProviderDelivers(i) ==
    /\ i \in 1..Len(subs)
    /\ ~Notified(i)
    /\ Delivery([readOk |-> TRUE, sigOk |-> TRUE,
                 event |-> [type |-> "customer.subscription.created", id |-> i,
                            parses |-> TRUE, Metadata |-> subs[i].Metadata]], TRUE)

(***************************************************************************)
(* Invoices: services/slack_service.go and the InvoiceService               *)
(***************************************************************************)
DefaultLastInvoice == 1000

HistoryLimit == 100

\* the first of the messages, newest first, that is just a number
RECURSIVE FirstNumber(_, _)
FirstNumber(channel, i) ==
    IF i < 1 \/ i <= Len(channel) - HistoryLimit THEN I64(DefaultLastInvoice)
    ELSE LET n == ParseInt(TrimSpace(channel[i]))
         IN  IF n.err = "none" THEN n.val ELSE FirstNumber(channel, i - 1)

\* GetLastInvoiceNumber: a failed history call also answers the default
GetLastInvoiceNumber(channel, historyOk) ==
    IF ~historyOk THEN I64(DefaultLastInvoice) ELSE FirstNumber(channel, Len(channel))

OverrideInputs == {<<>>, <<"1", "0", "0", "0">>, <<"x">>}

InvoiceProcs == 1..MaxInvoices

\* ProcessInvoiceSubmission up to the validation of the fields: the invoice
\* number is the override or, when that is empty, the last number plus one.
InvoiceNumbering(p, override, historyOk, valid) ==
    /\ invoiceProc[p].pc = "new"
    /\ LET auto   == TrimSpace(override) = <<>>
           number == IF auto
                     THEN FormatInt(I64Add(GetLastInvoiceNumber(counterChannel, historyOk),
                                           I64(1)))
                     ELSE TrimSpace(override)
       IN  invoiceProc' = [invoiceProc EXCEPT ![p] =
               [pc |-> IF valid THEN "numbered" ELSE "rejected",
                number |-> number, auto |-> auto]]
    /\ UNCHANGED <<counterChannel, invoicesSent>>
    /\ UNCHANGED <<linkVars, serverVars>>

\* Variant: the counter message is posted before the upload, whatever the
\* upload then does.
InvoiceSendCountingFirst(p, sentTo) ==
    /\ invoiceProc[p].pc = "numbered"
    /\ IF sentTo = "none"
       THEN /\ invoiceProc' = [invoiceProc EXCEPT ![p].pc = "failed"]
            /\ counterChannel' = Append(counterChannel, invoiceProc[p].number)
            /\ UNCHANGED invoicesSent
       ELSE /\ invoiceProc' = [invoiceProc EXCEPT ![p].pc = "sent"]
            /\ invoicesSent' = Append(invoicesSent,
                   [by |-> p, number |-> invoiceProc[p].number,
                    auto |-> invoiceProc[p].auto])
            /\ counterChannel' = IF sentTo = "channel"
                                 THEN Append(counterChannel, <<"#">> \o invoiceProc[p].number)
                                 ELSE counterChannel
    /\ UNCHANGED <<linkVars, serverVars>>

\* GenerateInvoicePDF and SendInvoiceToSlack: the invoice goes to the channel,
\* or to the user's direct messages when the channel refuses it, or nowhere.
InvoiceSend(p, sentTo) ==
    /\ invoiceProc[p].pc = "numbered"
    /\ IF sentTo = "none"
       THEN /\ invoiceProc' = [invoiceProc EXCEPT ![p].pc = "failed"]
            /\ UNCHANGED <<counterChannel, invoicesSent>>
       ELSE /\ invoiceProc' = [invoiceProc EXCEPT ![p].pc = "sent"]
            /\ invoicesSent' = Append(invoicesSent,
                   [by |-> p, number |-> invoiceProc[p].number,
                    auto |-> invoiceProc[p].auto])
            /\ counterChannel' = IF sentTo = "channel"
                                 THEN Append(counterChannel, <<"#">> \o invoiceProc[p].number)
                                 ELSE counterChannel
    /\ UNCHANGED <<linkVars, serverVars>>

\* The rest of ProcessInvoiceSubmission: UpdateLastInvoiceNumber posts the
\* number when it converts to an int; a failed post is only logged.
InvoiceUpdateCounter(p, postOk) ==
    /\ invoiceProc[p].pc = "sent"
    /\ invoiceProc' = [invoiceProc EXCEPT ![p].pc = "done"]
    /\ LET n == ParseInt(invoiceProc[p].number)
       IN  counterChannel' = IF n.err = "none" /\ postOk
                             THEN Append(counterChannel, FormatInt(n.val))
                             ELSE counterChannel
    /\ UNCHANGED invoicesSent
    /\ UNCHANGED <<linkVars, serverVars>>

(***************************************************************************)
(* The provider credential: the package variable stripe.Key                *)
(***************************************************************************)
\* the provider calls of one invocation: product.New, price.New and
\* paymentlink.New, or subscription.Update alone
CallsOf(p) == IF p = "scheduleSubscriptionCancellation" THEN 1 ELSE 3

\* what a string read that races with a write of another value can give
TornKey == <<"?">>

\* The key a provider call of p reads from stripe.Key.  No lock orders the
\* read after the writes of the other invocations: it gives the value written
\* last or, when that is not the value p wrote, a mix of the two.
RacyRead(p) ==
    {stripeKey} \cup (IF stripeKey # keyProc[p].key THEN {TornKey} ELSE {})

\* stripe.Key = s.apiKey, stripe.Key = h.stripeAPIKey: the first statement of
\* GenerateLink and of scheduleSubscriptionCancellation
SetKey(p) ==
    /\ keyProc[p].pc = "start"
    /\ stripeKey' = keyProc[p].key
    /\ keyProc' = [keyProc EXCEPT ![p].pc = "keyed"]
    /\ UNCHANGED <<keyCalls, httpLog>>
    /\ UNCHANGED <<linkVars, invoiceVars>>

\* one provider call of the invocation, made with the key it reads
ProviderCall(p, key) ==
    /\ keyProc[p].pc = "keyed"
    /\ key \in RacyRead(p)
    /\ keyCalls' = Append(keyCalls, [proc |-> p, key |-> key])
    /\ keyProc' = [keyProc EXCEPT ![p].calls = @ + 1,
                                  ![p].pc = IF keyProc[p].calls + 1 = CallsOf(p)
                                            THEN "done" ELSE "keyed"]
    /\ UNCHANGED <<stripeKey, httpLog>>
    /\ UNCHANGED <<linkVars, invoiceVars>>

(***************************************************************************)
(* The server started by main: the routes of the default ServeMux          *)
(***************************************************************************)
MaxRequests == 1

\* the endpoint the setup guide has the provider send its events to
WebhookPath == "/stripe/webhook"

\* http.HandleFunc in main: the patterns registered and their handlers
Registered ==
    ("/slack/commands" :> "HandleSlackCommands")
        @@ ("/slack/interactions" :> "HandleSlackInteractions")

\* the handler the default ServeMux gives a request path: a pattern without a
\* trailing slash matches that path only, any other path gets NotFound
ServeMux(path) ==
    IF path \in DOMAIN Registered THEN Registered[path] ELSE "NotFound"

\* The server answers the created event of subscription i, signed by the
\* provider and sent to path.  A Slack handler finds no Slack signature
\* headers or no payload in it and answers 400; NotFound answers 404.
ServeProviderRequest(path, i, updateOk) ==
    /\ Len(httpLog) < MaxRequests
    /\ i \in 1..Len(subs)
    /\ LET req == [readOk |-> TRUE, sigOk |-> TRUE,
                   event |-> [type |-> "customer.subscription.created", id |-> i,
                              parses |-> TRUE, Metadata |-> subs[i].Metadata]]
           h   == ServeMux(path)
       IN  IF h = "HandleWebhook"
           THEN LET r == WebhookResult(req, subs, updateOk)
                IN  /\ subs' = r.subs
                    /\ deliveries' = Append(deliveries,
                           [req |-> req, status |-> r.status, handler |-> r.handler,
                            outcome |-> r.outcome, calls |-> r.calls,
                            endCycles |-> r.endCycles, before |-> subs, after |-> r.subs])
                    /\ httpLog' = Append(httpLog,
                           [path |-> path, handler |-> h, status |-> r.status, id |-> i])
           ELSE /\ httpLog' = Append(httpLog,
                       [path |-> path, handler |-> h,
                        status |-> IF h = "NotFound" THEN 404 ELSE 400, id |-> i])
                /\ UNCHANGED <<subs, deliveries>>
    /\ UNCHANGED <<ticks, submissions, gen, resp, products, prices, links, builds,
                   submitted, creations, invoiceVars, keyVars>>

(***************************************************************************)
(* Specifications.                                                         *)
(***************************************************************************)
Next ==
    \/ Tick
    \/ \E v \in ModalInputs : ProcessModalSubmission(v)
    \/ \E ok \in BOOLEAN : AirwallexGenerateLink(ok)
    \/ \E ok \in BOOLEAN : ProductNew(ok)
    \/ \E ok \in BOOLEAN : PriceNew(ok)
    \/ \E ok \in BOOLEAN : PaymentLinkNew(ok)
    \/ \E l \in 1..Len(links) : CheckoutSubscription(l)
    \/ \E md \in ForeignMetadata : ForeignSubscription(md)
    \/ \E req \in WebhookRequests, ok \in BOOLEAN : HandleWebhook(req, ok)

Spec == Init /\ [][Next]_vars

\* GenerateLink called on any PaymentLinkData: the requests a caller of the
\* exported method can pass, beyond those the modal builds.
DirectData ==
    LET Data(sub, interval, count, cycles) ==
            [Amount            |-> [nan |-> FALSE, sign |-> 1, text |-> GoodAmount],
             ServiceName       |-> <<"P">>,
             ReferenceNumber   |-> <<"R">>,
             IsSubscription    |-> sub,
             Interval          |-> interval,
             IntervalCount     |-> I64(count),
             EndDateCycles     |-> I64(cycles),
             InternalReference |-> <<>>]
    IN  { Data(TRUE, i, c, n) : i \in {<<>>, DAY, WEEK, MONTH, YEAR, <<"q">>},
                                c \in {0, 1, 3}, n \in {0, 2, 300} }
        \cup { Data(TRUE, i, c, n) : i \in {<<>>, MONTH}, c \in {-1, 2}, n \in {-2, 1} }
        \cup { Data(FALSE, i, c, n) : i \in {<<>>, YEAR}, c \in {0, 3}, n \in {0, 2} }

InitFn ==
    /\ ticks = 0
    /\ submissions = 1
    /\ gen \in {[pc |-> "product", provider |-> ProviderStripe, data |-> d,
                  submission |-> 0] : d \in DirectData}
    /\ resp = NoResponse
    /\ products = <<>>
    /\ prices = <<>>
    /\ links = <<>>
    /\ builds = <<>>
    /\ subs = <<>>
    /\ deliveries = <<>>
    /\ submitted = <<>>
    /\ creations = <<>>
    /\ counterChannel = <<>>
    /\ invoiceProc = [p \in 1..MaxInvoices |-> [pc |-> "new"]]
    /\ invoicesSent = <<>>
    /\ stripeKey = <<>>
    /\ keyProc = [p \in KeyProcs |-> [pc |-> "start", key |-> ConfigKey, calls |-> 0]]
    /\ keyCalls = <<>>
    /\ httpLog = <<>>

NextFn ==
    \/ Tick
    \/ \E ok \in BOOLEAN : ProductNew(ok)
    \/ \E ok \in BOOLEAN : PriceNew(ok)
    \/ \E ok \in BOOLEAN : PaymentLinkNew(ok)
    \/ \E l \in 1..Len(links) : CheckoutSubscription(l)
    \/ \E req \in WebhookRequests, ok \in BOOLEAN : HandleWebhook(req, ok)

SpecFn == InitFn /\ [][NextFn]_vars

\* GenerateLink is called again for the request of the call that returned
\* last (the user submits again, a caller retries).
GenerateLinkAgain ==
    /\ gen = Idle
    /\ creations # <<>>
    /\ creations[Len(creations)].submission + 1 < MaxInvocations
    /\ gen' = [pc |-> "product", provider |-> ProviderStripe,
               data |-> creations[Len(creations)].data,
               submission |-> creations[Len(creations)].submission + 1]
    /\ resp' = NoResponse
    /\ UNCHANGED <<ticks, submissions, products, prices, links, builds, subs, deliveries,
                   submitted, creations, invoiceVars, serverVars>>

NextRetry ==
    \/ Tick
    \/ \E ok \in BOOLEAN : ProductNew(ok)
    \/ \E ok \in BOOLEAN : PriceNew(ok)
    \/ \E ok \in BOOLEAN : PaymentLinkNew(ok)
    \/ GenerateLinkAgain

SpecRetry == InitFn /\ [][NextRetry]_vars

\* The Builder and the Enforcer with a provider that, besides anything else
\* that reaches the endpoint, delivers the created event of every
\* subscription and accepts the update call made for it.
NextLive ==
    \/ NextFn
    \/ \E i \in 1..MaxSubs : ProviderDelivers(i)

\* the created event of subscription i is still to be delivered:
\* ProviderDelivers(i) is enabled, and every step of it changes deliveries
Pending(i) == i \in 1..Len(subs) /\ ~Notified(i)

\* WF_vars(ProviderDelivers(i)), its ENABLED written out as Pending(i)
ProviderFair(i) ==
    []<>(~Pending(i)) \/ []<><<ProviderDelivers(i)>>_vars

SpecLive ==
    InitFn /\ [][NextLive]_vars /\ \A i \in 1..MaxSubs : ProviderFair(i)

\* Concurrent invocations of the Builder and the Enforcer, each in its own
\* goroutine of the server; the handler is constructed with the key of the
\* configuration or with another key of the account.
InitKey ==
    /\ ticks = 0
    /\ submissions = 0
    /\ gen = Idle
    /\ resp = NoResponse
    /\ products = <<>>
    /\ prices = <<>>
    /\ links = <<>>
    /\ builds = <<>>
    /\ subs = <<>>
    /\ deliveries = <<>>
    /\ submitted = <<>>
    /\ creations = <<>>
    /\ counterChannel = <<>>
    /\ invoiceProc = [p \in 1..MaxInvoices |-> [pc |-> "new"]]
    /\ invoicesSent = <<>>
    /\ stripeKey = <<>>
    /\ \E k \in {ConfigKey, OtherKey} :
           keyProc = [p \in KeyProcs |->
                         [pc |-> "start",
                          key |-> IF p = "scheduleSubscriptionCancellation"
                                  THEN k ELSE ConfigKey,
                          calls |-> 0]]
    /\ keyCalls = <<>>
    /\ httpLog = <<>>

NextKey ==
    \/ \E p \in KeyProcs : SetKey(p)
    \/ \E p \in KeyProcs, key \in {<<>>, ConfigKey, OtherKey, TornKey} : ProviderCall(p, key)

SpecKey == InitKey /\ [][NextKey]_vars

\* The process started by main: the Slack routes with the Builder behind
\* them, the provider creating subscriptions, and the provider's events
\* arriving at the server.
NextServer ==
    \/ Tick
    \/ \E v \in ModalInputs : ProcessModalSubmission(v)
    \/ \E ok \in BOOLEAN : AirwallexGenerateLink(ok)
    \/ \E ok \in BOOLEAN : ProductNew(ok)
    \/ \E ok \in BOOLEAN : PriceNew(ok)
    \/ \E ok \in BOOLEAN : PaymentLinkNew(ok)
    \/ \E l \in 1..Len(links) : CheckoutSubscription(l)
    \/ \E md \in ForeignMetadata : ForeignSubscription(md)
    \/ \E path \in DOMAIN Registered \cup {WebhookPath}, i \in 1..MaxSubs, ok \in BOOLEAN :
           ServeProviderRequest(path, i, ok)

SpecServer == Init /\ [][NextServer]_vars

\* The invoice submissions, each handled by its own goroutine of the server.
NextInvoice ==
    \/ \E p \in InvoiceProcs, override \in OverrideInputs, historyOk \in BOOLEAN,
          valid \in BOOLEAN : InvoiceNumbering(p, override, historyOk, valid)
    \/ \E p \in InvoiceProcs, sentTo \in {"channel", "dm", "none"} : InvoiceSend(p, sentTo)
    \/ \E p \in InvoiceProcs, postOk \in BOOLEAN : InvoiceUpdateCounter(p, postOk)

SpecInvoice == Init /\ [][NextInvoice]_vars

(***************************************************************************)
(* Properties of the Builder.                                              *)
(***************************************************************************)
\* d(I), the length of one interval in seconds as the specification gives it
durationOf(interval) ==
    CASE interval = DAY   -> 86400
      [] interval = WEEK  -> 604800
      [] interval = MONTH -> 2592000
      [] interval = YEAR  -> 31536000
      [] OTHER            -> 2592000

\* T + N * C * d(I) over the integers, for the request of one build
ExactCutoff(b) ==
    ZAdd(ZFromInt(b.now.sec),
         ZMul(ZMul(I64ToZ(b.data.EndDateCycles), I64ToZ(b.data.IntervalCount)),
              ZFromInt(durationOf(b.data.Interval))))

CycleKeys == {"end_date_cycles", "end_timestamp", "interval", "interval_count"}

\* C1: for every request with EndDateCycles N > 0 built at time T, the result
\* of calculateEndTimestamp is T + N*C*d(I) seconds and the end_timestamp the
\* Builder writes is the decimal text of that number.
C1_EndTimestampIsExact ==
    \A i \in 1..Len(builds) :
        LET b == builds[i]
            d == b.data
        IN  (d.IsSubscription /\ I64Positive(d.EndDateCycles)) =>
                /\ I64ToZ(calculateEndTimestamp(d.Interval, d.IntervalCount,
                                                d.EndDateCycles, b.now)) = ExactCutoff(b)
                /\ b.params.SubscriptionData.Metadata["end_timestamp"]
                       = ZFormat(ExactCutoff(b))

\* C2: in every metadata map the Builder produces, if end_date_cycles is
\* present then end_timestamp is present and is a number strictly greater
\* than the time at which the link was built.
C2_CutoffAfterCreation ==
    \A i \in 1..Len(builds) :
        LET b == builds[i]
        IN  (b.params.SubscriptionData.present
                 /\ "end_date_cycles" \in DOMAIN b.params.SubscriptionData.Metadata) =>
                /\ "end_timestamp" \in DOMAIN b.params.SubscriptionData.Metadata
                /\ LET ts == ParseInt(b.params.SubscriptionData.Metadata["end_timestamp"])
                   IN  ts.err = "none" /\ ZLess(ZFromInt(b.now.sec), I64ToZ(ts.val))

(***************************************************************************)
(* Properties of the Enforcer and of the two halves together.              *)
(***************************************************************************)
SubscriptionCreated == "customer.subscription.created"

\* the deliveries that passed the reading of the body and webhook.ConstructEvent
Verified(e) == e.req.readOk /\ e.req.sigOk

\* a verified delivery of a subscription-created event whose payload parses
CreatedDelivery(e) ==
    Verified(e) /\ e.req.event.type = SubscriptionCreated /\ e.req.event.parses

\* the build that created payment link l
BuildOf(l) == builds[CHOOSE i \in 1..Len(builds) : builds[i].linkID = l]

\* metadata with both cycle-limit keys, each a base-10 int64
ValidCycleMetadata(md) ==
    /\ "end_date_cycles" \in DOMAIN md
    /\ "end_timestamp" \in DOMAIN md
    /\ ParseInt(md["end_date_cycles"]).err = "none"
    /\ ParseInt(md["end_timestamp"]).err = "none"

\* the scheduling calls made for subscription id: <<delivery, position>>
CallsFor(id) ==
    { p \in (1..Len(deliveries)) \X (1..2) :
        /\ p[2] <= Len(deliveries[p[1]].calls)
        /\ deliveries[p[1]].calls[p[2]].sub = id }

\* C3: round trip.  When the metadata the Builder wrote for a request with
\* EndDateCycles > 0 arrives in the subscription-created event, the handler
\* decodes end_date_cycles to the request's EndDateCycles, schedules the
\* cancellation at exactly the value calculateEndTimestamp gave the Builder,
\* and interval and interval_count read back as the request's fields.
C3_RoundTripLossless ==
    \A k \in 1..Len(deliveries) :
        LET e == deliveries[k]
        IN  (CreatedDelivery(e) /\ subs[e.req.event.id].link # 0) =>
                LET b == BuildOf(subs[e.req.event.id].link)
                    d == b.data
                IN  I64Positive(d.EndDateCycles) =>
                        /\ Len(e.calls) = 1
                        /\ e.calls[1].sub = e.req.event.id
                        /\ e.calls[1].params.CancelAt
                               = calculateEndTimestamp(d.Interval, d.IntervalCount,
                                                       d.EndDateCycles, b.now)
                        /\ e.endCycles = d.EndDateCycles
                        /\ e.req.event.Metadata["interval"] = d.Interval
                        /\ ParseInt(e.req.event.Metadata["interval_count"])
                               = [err |-> "none", val |-> d.IntervalCount]

\* C3 witness: the event of a subscription made through a cycle-limited link
\* was delivered and its cancellation scheduled.
C3_Witness ==
    \E k \in 1..Len(deliveries) :
        /\ CreatedDelivery(deliveries[k])
        /\ subs[deliveries[k].req.event.id].link # 0
        /\ I64Positive(BuildOf(subs[deliveries[k].req.event.id].link).data.EndDateCycles)
        /\ deliveries[k].outcome = "scheduled"

\* C4: idempotence.  When the same subscription-created event with valid
\* cycle metadata is handled twice and the first handling scheduled the
\* cancellation, the second requests the same cutoff for the same
\* subscription, returns no error when the provider accepts the call, and
\* leaves the subscription's cancel-at and cancel-at-period-end as the
\* first left them.
C4_DuplicateDeliveryIdempotent ==
    \A i, j \in 1..Len(deliveries) :
        LET first  == deliveries[i]
            second == deliveries[j]
        IN  (/\ i < j
             /\ CreatedDelivery(first) /\ CreatedDelivery(second)
             /\ first.req.event = second.req.event
             /\ first.outcome = "scheduled") =>
                /\ Len(second.calls) = 1
                /\ second.calls[1].sub = first.calls[1].sub
                /\ second.calls[1].params = first.calls[1].params
                /\ second.calls[1].ok => second.outcome = "scheduled"
                /\ second.after[second.req.event.id] = first.after[first.req.event.id]

\* C4 witness: one event handled twice, scheduled both times.
C4_Witness ==
    \E i, j \in 1..Len(deliveries) :
        /\ i < j
        /\ CreatedDelivery(deliveries[i]) /\ CreatedDelivery(deliveries[j])
        /\ deliveries[i].req.event = deliveries[j].req.event
        /\ deliveries[i].outcome = "scheduled"
        /\ deliveries[j].outcome = "scheduled"

\* C5 as stated: for every subscription with valid cycle metadata whose
\* created event was delivered, exactly one scheduling call was made over
\* all the deliveries.
C5_ExactlyOneSchedulingAction ==
    \A id \in 1..Len(subs) :
        (/\ ValidCycleMetadata(subs[id].Metadata)
         /\ \E k \in 1..Len(deliveries) :
                CreatedDelivery(deliveries[k]) /\ deliveries[k].req.event.id = id) =>
            Cardinality(CallsFor(id)) = 1

\* C5 amended: every verified delivery of a parsable subscription-created
\* event with valid cycle metadata makes exactly one scheduling call, for the
\* event's subscription (so k deliveries make k calls); and all the calls
\* made for one subscription carry the same cutoff and the same flag.
C5_OneCallPerDeliverySameCutoff ==
    /\ \A k \in 1..Len(deliveries) :
           LET e == deliveries[k]
           IN  (CreatedDelivery(e) /\ ValidCycleMetadata(e.req.event.Metadata)) =>
                   Len(e.calls) = 1 /\ e.calls[1].sub = e.req.event.id
    /\ \A id \in 1..Len(subs) :
           \A p, q \in CallsFor(id) :
               deliveries[p[1]].calls[p[2]].params = deliveries[q[1]].calls[q[2]].params

\* C5 witness: two deliveries of the event of one cycle-limited subscription.
C5_Witness ==
    \E id \in 1..Len(subs) :
        /\ ValidCycleMetadata(subs[id].Metadata)
        /\ Cardinality(CallsFor(id)) = 2

\* C6: a subscription-created event whose metadata has end_date_cycles but
\* no end_timestamp leads to no provider call and leaves the provider's
\* subscriptions as they were.
C6_MissingTimestampNoAction ==
    \A k \in 1..Len(deliveries) :
        LET e == deliveries[k]
        IN  (/\ CreatedDelivery(e)
             /\ "end_date_cycles" \in DOMAIN e.req.event.Metadata
             /\ "end_timestamp" \notin DOMAIN e.req.event.Metadata) =>
                /\ e.calls = <<>>
                /\ e.after = e.before
                /\ e.outcome = "no_end_timestamp"

\* C6 witness: such an event was delivered, with a parsable cycle count and
\* for a subscription that exists.
C6_Witness ==
    \E k \in 1..Len(deliveries) :
        /\ CreatedDelivery(deliveries[k])
        /\ "end_date_cycles" \in DOMAIN deliveries[k].req.event.Metadata
        /\ "end_timestamp" \notin DOMAIN deliveries[k].req.event.Metadata
        /\ ParseInt(deliveries[k].req.event.Metadata["end_date_cycles"]).err = "none"
        /\ deliveries[k].req.event.id \in 1..Len(deliveries[k].before)

\* C7: a request that webhook.ConstructEvent rejects reaches no handler, makes
\* no provider call and changes nothing; every request that reached a
\* handler was verified first.
C7_UnverifiedNeverActedOn ==
    \A k \in 1..Len(deliveries) :
        LET e == deliveries[k]
        IN  /\ ~e.req.sigOk =>
                   /\ e.handler = "none"
                   /\ e.calls = <<>>
                   /\ e.after = e.before
                   /\ e.status # 200
            /\ e.handler # "none" => Verified(e)

\* C7 witness: an unverified subscription-created payload with valid cycle
\* metadata, aimed at a subscription that exists, was answered with 400.
C7_Witness ==
    \E k \in 1..Len(deliveries) :
        /\ deliveries[k].req.readOk /\ ~deliveries[k].req.sigOk
        /\ deliveries[k].req.event.type = SubscriptionCreated
        /\ ValidCycleMetadata(deliveries[k].req.event.Metadata)
        /\ deliveries[k].req.event.id \in 1..Len(deliveries[k].before)
        /\ deliveries[k].status = 400

\* C8: every verified delivery is answered with 200, whatever the handler
\* did with it.
C8_VerifiedAlwaysAcknowledged ==
    \A k \in 1..Len(deliveries) :
        Verified(deliveries[k]) => deliveries[k].status = 200

\* C8 witness: a verified delivery whose scheduling call failed at the
\* provider, after a verified delivery that was dropped for another reason.
C8_Witness ==
    \E j, k \in 1..Len(deliveries) :
        /\ Verified(deliveries[j])
        /\ deliveries[j].outcome \in {"unhandled", "unparsable", "unlimited",
                                       "no_end_timestamp", "bad_end_date_cycles",
                                       "bad_end_timestamp"}
        /\ Verified(deliveries[k])
        /\ deliveries[k].outcome = "schedule_failed"
        /\ deliveries[k].status = 200

\* C9: for a request with IsSubscription = false, whatever its other fields,
\* the price has no recurring block and the payment link has no subscription
\* data, hence no metadata key at all.
C9_OneTimeHasNoSubscriptionParams ==
    \A i \in 1..Len(builds) :
        LET b == builds[i]
        IN  ~b.data.IsSubscription =>
                /\ ~prices[b.priceID].Recurring.present
                /\ ~b.params.SubscriptionData.present

\* C9 witness: a one-time link was built from a request whose interval and
\* EndDateCycles are set.
C9_Witness ==
    \E i \in 1..Len(builds) :
        /\ ~builds[i].data.IsSubscription
        /\ builds[i].data.Interval = YEAR
        /\ I64Positive(builds[i].data.EndDateCycles)
        /\ builds[i].linkID # 0

\* C10: for a request with IsSubscription = true and EndDateCycles = 0 the
\* price is recurring and the subscription metadata has none of the four
\* cycle keys.
C10_UnlimitedHasNoCycleKeys ==
    \A i \in 1..Len(builds) :
        LET b == builds[i]
        IN  (b.data.IsSubscription /\ b.data.EndDateCycles = I64Zero) =>
                /\ prices[b.priceID].Recurring.present
                /\ b.params.SubscriptionData.present
                /\ DOMAIN b.params.SubscriptionData.Metadata \cap CycleKeys = {}

\* C10 witness: a link for an unlimited subscription was built.
C10_Witness ==
    \E i \in 1..Len(builds) :
        /\ builds[i].data.IsSubscription
        /\ builds[i].data.EndDateCycles = I64Zero
        /\ builds[i].linkID # 0

(***************************************************************************)
(* Properties of the request layer.                                        *)
(***************************************************************************)
\* an end-cycles input that is negative or not a base-10 int64
BadEndCycles(s) ==
    /\ s # <<>>
    /\ LET r == ParseInt(TrimSpace(s))
       IN  r.err # "none" \/ I64IsNeg(r.val)

\* the product.New, price.New and paymentlink.New calls made for submission i
CreationsFor(i) == {k \in 1..Len(creations) : creations[k].submission = i}

\* nothing was built and no provider call made for submission i
NothingBuiltFor(i) ==
    /\ CreationsFor(i) = {}
    /\ \A k \in 1..Len(builds) : builds[k].submission # i
    /\ gen.pc # "idle" => gen.submission # i

BadAmount(s) == ParseFloat(s).err \/ FloatNotPositive(ParseFloat(s))

\* C11 as stated: every Stripe submission whose end-cycles input is negative
\* or not a base-10 integer is answered with a field error on end_date_block,
\* and nothing is built and no provider call made for it.
C11_RejectedOnEndDateBlock ==
    \A i \in 1..Len(submitted) :
        LET v == submitted[i].values
        IN  (v.provider = ProviderStripe /\ BadEndCycles(v.endDate)) =>
                submitted[i].block = "end_date_block" /\ NothingBuiltFor(i)

\* C11 amended: such a submission is answered with a field error, nothing is
\* built and no provider call made for it; the error is on end_date_block
\* when the amount and the service name are valid, and on amount_block or
\* service_block, which are tested first, when they are not.
C11_RejectedBeforeBuilding ==
    \A i \in 1..Len(submitted) :
        LET v == submitted[i].values
        IN  (v.provider = ProviderStripe /\ BadEndCycles(v.endDate)) =>
                /\ submitted[i].block =
                       IF BadAmount(v.amount) THEN "amount_block"
                       ELSE IF v.service = <<>> THEN "service_block"
                       ELSE "end_date_block"
                /\ NothingBuiltFor(i)

\* C11 witness: a submission with a negative and one with a non-numeric
\* end-cycles input can be made; one was answered on end_date_block.
C11_Witness ==
    \E i \in 1..Len(submitted) :
        /\ submitted[i].values.endDate \in {<<"x">>, <<"-", "2">>}
        /\ submitted[i].block = "end_date_block"
        /\ resp = respondWithError("end_date_block", "validation")

\* C12: every PaymentLinkData handed to a generator has
\* EndDateCycles > 0 only if IsSubscription is true.
C12_CycleLimitImpliesSubscription ==
    gen.pc # "idle" => (I64Positive(gen.data.EndDateCycles) => gen.data.IsSubscription)

ValidIntervals == {DAY, WEEK, MONTH, YEAR}

\* a submission with a validation error: a bad amount, no service name, or
\* an interval that is none of day, week, month, year
InvalidSubmission(v) ==
    \/ BadAmount(v.amount)
    \/ v.service = <<>>
    \/ v.provider = ProviderStripe /\ v.interval # <<>> /\ v.interval \notin ValidIntervals

\* C15: every submission with a validation error is answered with an error
\* and no product, price or link creation call is made for it.
C15_InvalidRejectedBeforeProvider ==
    \A i \in 1..Len(submitted) :
        InvalidSubmission(submitted[i].values) =>
            submitted[i].block # "none" /\ CreationsFor(i) = {}

(***************************************************************************)
(* Further properties of the Enforcer.                                     *)
(***************************************************************************)
\* C13: a subscription-created event whose metadata has no end_date_cycles
\* key leads to no provider call and no error and leaves the subscriptions
\* as they were, whatever other keys (end_timestamp too) the metadata has.
C13_NoCycleKeyNoAction ==
    \A k \in 1..Len(deliveries) :
        LET e == deliveries[k]
        IN  (CreatedDelivery(e) /\ "end_date_cycles" \notin DOMAIN e.req.event.Metadata) =>
                /\ e.calls = <<>>
                /\ e.after = e.before
                /\ e.outcome = "unlimited"
                /\ e.status = 200

\* C13 witness: the created event of a subscription whose metadata has
\* end_timestamp but no end_date_cycles was delivered.
C13_Witness ==
    \E k \in 1..Len(deliveries) :
        /\ CreatedDelivery(deliveries[k])
        /\ "end_date_cycles" \notin DOMAIN deliveries[k].req.event.Metadata
        /\ "end_timestamp" \in DOMAIN deliveries[k].req.event.Metadata
        /\ deliveries[k].req.event.id \in 1..Len(deliveries[k].before)

\* C14: a delivery makes a provider call or changes a subscription only if
\* it is a verified customer.subscription.created event; events of every
\* other type make no call and change nothing, whatever their metadata.
C14_OnlyCreatedSchedules ==
    \A k \in 1..Len(deliveries) :
        LET e == deliveries[k]
        IN  /\ (e.calls # <<>> \/ e.after # e.before) =>
                   Verified(e) /\ e.req.event.type = SubscriptionCreated
            /\ e.req.event.type # SubscriptionCreated =>
                   e.calls = <<>> /\ e.after = e.before
                       /\ e.handler # "handleSubscriptionCreated"

\* C14 witness: verified events of the two other types, parsable and with
\* valid cycle metadata, were delivered for a subscription that exists.
C14_Witness ==
    \E j, k \in 1..Len(deliveries) :
        /\ Verified(deliveries[j]) /\ Verified(deliveries[k])
        /\ deliveries[j].req.event.type = "checkout.session.completed"
        /\ deliveries[k].req.event.type = "customer.subscription.updated"
        /\ deliveries[j].req.event.parses /\ deliveries[k].req.event.parses
        /\ ValidCycleMetadata(deliveries[j].req.event.Metadata)
        /\ ValidCycleMetadata(deliveries[k].req.event.Metadata)

(***************************************************************************)
(* Further properties of the Builder.                                      *)
(***************************************************************************)
\* the creation calls of one run of GenerateLink, in the order made
CreationSeq(i) ==
    LET OfRun(c) == c.submission = i
    IN  SelectSeq(creations, OfRun)

StageOrder == <<"product", "price", "link">>

\* the run of GenerateLink for submission i has returned
Returned(i) == Len(submitted) = i /\ gen.pc = "idle"

\* C16: the creation calls of every run of GenerateLink are product, price,
\* link in that order, each made only after the previous one succeeded and
\* with the identifier it returned; when a call fails no later call is made
\* and the run returns no link and an error that names that stage; when all
\* three succeed it returns the link created.
C16_StagesInOrder ==
    \A i \in 0..Len(submitted) :
        LET run == CreationSeq(i)
        IN  /\ Len(run) <= 3
            /\ \A k \in 1..Len(run) : run[k].stage = StageOrder[k]
            /\ \A k \in 2..Len(run) :
                   run[k - 1].returns # 0 /\ run[k].uses = run[k - 1].returns
            /\ (Returned(i) /\ run # <<>>) =>
                   IF run[Len(run)].returns = 0
                   THEN resp = respondWithError("", StageOrder[Len(run)])
                   ELSE /\ Len(run) = 3
                        /\ resp.action = "ok"
                        /\ resp.link = run[3].returns

\* C16 witness: a run whose price creation failed after the product was
\* created has returned.
C16_Witness ==
    \E i \in 0..Len(submitted) :
        /\ Returned(i)
        /\ Len(CreationSeq(i)) = 2
        /\ CreationSeq(i)[1].returns # 0
        /\ CreationSeq(i)[2].returns = 0
        /\ resp.stage = "price"

FailedScheduling(e) == e.outcome = "schedule_failed"

\* C19: a failed scheduling call is final for its delivery: exactly one
\* update call was made and it failed, the delivery is answered with 200, the
\* provider's subscriptions are as they were, and a subscription that had no
\* cutoff before the delivery has one now only if a later delivery of its
\* event succeeded.
C19_FailedSchedulingIsTerminal ==
    \A k \in 1..Len(deliveries) :
        LET e  == deliveries[k]
            id == e.req.event.id
        IN  FailedScheduling(e) =>
                /\ Len(e.calls) = 1
                /\ e.calls[1].sub = id /\ ~e.calls[1].ok
                /\ e.status = 200
                /\ e.after = e.before
                /\ (~e.before[id].CancelAt.present /\ subs[id].CancelAt.present) =>
                       \E j \in (k + 1)..Len(deliveries) :
                           /\ CreatedDelivery(deliveries[j])
                           /\ deliveries[j].req.event.id = id
                           /\ deliveries[j].outcome = "scheduled"

\* C19 witness: a failed scheduling call for a subscription without a cutoff,
\* then a later delivery of the event that succeeds and sets the cutoff.
C19_Witness ==
    \E k \in 1..Len(deliveries) :
        /\ FailedScheduling(deliveries[k])
        /\ ~deliveries[k].after[deliveries[k].req.event.id].CancelAt.present
        /\ \E j \in (k + 1)..Len(deliveries) : deliveries[j].outcome = "scheduled"
        /\ subs[deliveries[k].req.event.id].CancelAt.present

\* the link creation that attached the metadata subscription s carries
AttachedAtLinkCreation(s) ==
    /\ s.link \in 1..Len(links)
    /\ \E b \in 1..Len(builds) :
           /\ builds[b].linkID = s.link
           /\ builds[b].params.SubscriptionData.present
           /\ builds[b].params.SubscriptionData.Metadata = s.Metadata
           /\ {"end_date_cycles", "end_timestamp"} \subseteq DOMAIN s.Metadata

\* every scheduling call was made in a verified delivery of the
\* subscription-created event of a subscription that existed by then
CallsAfterNotification ==
    \A k \in 1..Len(deliveries) :
        LET e == deliveries[k]
        IN  \A c \in 1..Len(e.calls) :
                /\ CreatedDelivery(e)
                /\ e.calls[c].sub = e.req.event.id
                /\ e.calls[c].sub \in 1..Len(e.before)

\* no step clears or changes a cutoff that is set
CutoffKept ==
    \A id \in 1..Len(subs) :
        subs[id].CancelAt.present =>
            /\ id \in 1..Len(subs')
            /\ subs'[id].CancelAt = subs[id].CancelAt

\* C20, as stated: every scheduling call is for a subscription whose metadata
\* was attached at link creation, is made in a verified delivery of its
\* subscription-created event, and a cutoff once set is never cleared or
\* changed.
C20_LifecycleOrder ==
    /\ [](CallsAfterNotification
            /\ \A k \in 1..Len(deliveries) :
                   \A c \in 1..Len(deliveries[k].calls) :
                       AttachedAtLinkCreation(
                           deliveries[k].before[deliveries[k].calls[c].sub]))
    /\ [][CutoffKept]_vars

\* C20, for the subscriptions made through a link of the Builder: every
\* scheduling call for such a subscription comes after the link creation
\* that attached its metadata and is made in a verified delivery of its
\* subscription-created event; for every subscription, a cutoff once set is
\* never cleared or changed.
C20_LifecycleOrderOfBuilderLinks ==
    /\ [](CallsAfterNotification
            /\ \A k \in 1..Len(deliveries) :
                   \A c \in 1..Len(deliveries[k].calls) :
                       LET s == deliveries[k].before[deliveries[k].calls[c].sub]
                       IN  s.link # 0 => AttachedAtLinkCreation(s))
    /\ [][CutoffKept]_vars

\* C20 witness: a subscription made through a link of the Builder whose
\* cutoff was scheduled by one delivery and met by a later delivery, the
\* later one refused by the provider.
C20_Witness ==
    \E j, k \in 1..Len(deliveries) :
        /\ j < k
        /\ deliveries[j].outcome = "scheduled"
        /\ FailedScheduling(deliveries[k])
        /\ deliveries[k].req.event.id = deliveries[j].req.event.id
        /\ subs[deliveries[k].req.event.id].link # 0
        /\ subs[deliveries[k].req.event.id].CancelAt.present

\* subscription i was made through a link built for a request with
\* EndDateCycles > 0
CycleLimited(i) ==
    /\ i \in 1..Len(subs)
    /\ subs[i].link # 0
    /\ I64Positive(BuildOf(subs[i].link).data.EndDateCycles)

\* subscription i has a cutoff
CancellationScheduled(i) == i \in 1..Len(subs) /\ subs[i].CancelAt.present

\* every verified delivery of a created event made at most one provider call
AtMostOneCallPerDelivery ==
    \A k \in 1..Len(deliveries) :
        CreatedDelivery(deliveries[k]) => Len(deliveries[k].calls) <= 1

\* a subscription has a cutoff only through a delivery of its created event
NoCutoffWithoutDelivery ==
    \A i \in 1..Len(subs) :
        subs[i].CancelAt.present =>
            \E k \in 1..Len(deliveries) :
                /\ CreatedDelivery(deliveries[k])
                /\ deliveries[k].req.event.id = i
                /\ deliveries[k].outcome = "scheduled"

\* C21: every verified delivery of a created event makes at most one provider
\* call; a subscription never has a cutoff unless a delivery of its created
\* event scheduled it; and, when the provider delivers the event and accepts
\* the update, every subscription made from a link with EndDateCycles > 0
\* eventually has its cancellation scheduled.
C21_EventuallyScheduled ==
    /\ [](AtMostOneCallPerDelivery /\ NoCutoffWithoutDelivery)
    /\ \A i \in 1..MaxSubs : CycleLimited(i) ~> CancellationScheduled(i)

\* C21 witness: a cycle-limited subscription whose first delivery was refused
\* by the provider and that a later delivery scheduled.
C21_Witness ==
    \E i \in 1..Len(subs) :
        /\ CycleLimited(i)
        /\ subs[i].CancelAt.present
        /\ \E k \in 1..Len(deliveries) :
               FailedScheduling(deliveries[k]) /\ deliveries[k].req.event.id = i

IsPrefix(a, b) == Len(a) <= Len(b) /\ \A k \in 1..Len(a) : a[k] = b[k]

\* the provider's products, prices and links are never deleted or changed
ObjectsOnlyGrow ==
    /\ IsPrefix(products, products')
    /\ IsPrefix(prices, prices')
    /\ IsPrefix(links, links')

\* the successful creation calls at one stage
CreatedAt(stage) ==
    {k \in 1..Len(creations) : creations[k].stage = stage /\ creations[k].returns # 0}

\* every successful creation call made a new object: the k-th successful
\* call at a stage returned the k-th object of the provider
FreshObjects ==
    /\ \A stage \in {"product", "price", "link"} :
           \A a, b \in CreatedAt(stage) :
               a # b => creations[a].returns # creations[b].returns
    /\ Cardinality(CreatedAt("product")) = Len(products)
    /\ Cardinality(CreatedAt("price")) = Len(prices)
    /\ Cardinality(CreatedAt("link")) = Len(links)

\* the objects a failed call was built on are still there
OrphansRemain ==
    \A k \in 1..Len(creations) :
        LET c == creations[k]
        IN  (c.returns = 0 /\ c.stage = "price" => c.uses \in 1..Len(products))
            /\ (c.returns = 0 /\ c.stage = "link" =>
                    /\ c.uses \in 1..Len(prices)
                    /\ prices[c.uses].Product \in 1..Len(products))

\* two calls of GenerateLink for the same request leave two products that
\* differ in nothing but their identifier, and likewise two prices
RetryDuplicates ==
    \A a, b \in 1..Len(creations) :
        LET ca == creations[a]
            cb == creations[b]
        IN  (ca.submission # cb.submission /\ ca.data = cb.data /\ ca.stage = cb.stage
                 /\ ca.returns # 0 /\ cb.returns # 0) =>
                /\ ca.stage = "product" =>
                       /\ ca.returns # cb.returns
                       /\ products[ca.returns] = products[cb.returns]
                /\ ca.stage = "price" =>
                       /\ ca.returns # cb.returns
                       /\ prices[ca.returns].Product # prices[cb.returns].Product
                       /\ [prices[ca.returns] EXCEPT !.Product = 0]
                              = [prices[cb.returns] EXCEPT !.Product = 0]

\* C22: the provider's products, prices and links only grow; every creation
\* call that succeeds makes a new object; the objects made before a failed
\* price or link call remain; and a second GenerateLink for the same request
\* makes duplicates of them.
C22_ObjectsOnlyGrow ==
    /\ [](FreshObjects /\ OrphansRemain /\ RetryDuplicates)
    /\ [][ObjectsOnlyGrow]_vars

\* C22 witness: GenerateLink failed at the link stage, was called again for
\* the same request and succeeded: two products, two prices, one link.
C22_Witness ==
    /\ Len(products) = 2 /\ Len(prices) = 2 /\ Len(links) = 1
    /\ products[1] = products[2]
    /\ \E k \in 1..Len(creations) :
           /\ creations[k].stage = "link" /\ creations[k].returns = 0
           /\ creations[k].submission = 0
    /\ \E k \in 1..Len(creations) :
           /\ creations[k].stage = "link" /\ creations[k].returns = 1
           /\ creations[k].submission = 1

\* C24: a Stripe subscription submission whose end-cycles input is the text
\* 0, its amount and service name valid, is not rejected: it is answered
\* without a field error, as the same submission with the field empty is.
C24_ZeroMeansUnlimited ==
    \A i \in 1..Len(submitted) :
        LET v == submitted[i].values
        IN  (v.provider = ProviderStripe /\ v.subscription
                 /\ TrimSpace(v.endDate) = <<"0">>
                 /\ ~BadAmount(v.amount) /\ v.service # <<>>) =>
                /\ submitted[i].block = "none"
                /\ submitted[i].block
                       = ModalRequest([v EXCEPT !.endDate = <<>>], Now).err

\* C25: for every request with positive EndDateCycles N and interval count
\* C that the modal accepted, the cutoff calculateEndTimestamp gives is not
\* earlier than the creation time and not earlier than the cutoff for one
\* cycle of the same interval and count.
C25_DurationDoesNotWrap ==
    \A i \in 1..Len(builds) :
        LET b  == builds[i]
            d  == b.data
            tN == I64ToZ(calculateEndTimestamp(d.Interval, d.IntervalCount,
                                               d.EndDateCycles, b.now))
            t1 == I64ToZ(calculateEndTimestamp(d.Interval, d.IntervalCount,
                                               I64(1), b.now))
        IN  (b.submission # 0 /\ d.IsSubscription /\ I64Positive(d.EndDateCycles)
                 /\ I64Positive(d.IntervalCount)) =>
                /\ ~ZLess(tN, ZFromInt(b.now.sec))
                /\ ~ZLess(tN, t1)

\* C26: whenever the created event of a subscription made through a link
\* built at time T for EndDateCycles N > 0 is delivered, however long after T,
\* the cancel-at scheduled is T + N*C*d(I), also when that time has passed.
C26_CutoffFixedAtLinkCreation ==
    \A k \in 1..Len(deliveries) :
        LET e == deliveries[k]
        IN  (CreatedDelivery(e) /\ subs[e.req.event.id].link # 0) =>
                LET b == BuildOf(subs[e.req.event.id].link)
                IN  I64Positive(b.data.EndDateCycles) =>
                        /\ Len(e.calls) = 1
                        /\ I64ToZ(e.calls[1].params.CancelAt) = ExactCutoff(b)

\* C27: a verified subscription-created event leads to a scheduling call
\* exactly when its payload parses and end_date_cycles and end_timestamp are
\* both present and both base-10 int64; the call is then the only one, is
\* made against the subscription of the event, with cancel-at the parsed
\* end_timestamp and cancel-at-period-end set, whatever the sign or size of
\* the two numbers.
C27_ExactEnablingCondition ==
    \A k \in 1..Len(deliveries) :
        LET e  == deliveries[k]
            md == e.req.event.Metadata
        IN  (Verified(e) /\ e.req.event.type = SubscriptionCreated) =>
                IF e.req.event.parses /\ ValidCycleMetadata(md)
                THEN /\ Len(e.calls) = 1
                     /\ e.calls[1].sub = e.req.event.id
                     /\ e.calls[1].params
                            = [CancelAt |-> ParseInt(md["end_timestamp"]).val,
                               CancelAtPeriodEnd |-> TRUE]
                ELSE e.calls = <<>>

\* C27 witness: a scheduling call for an event whose end_date_cycles and
\* end_timestamp are both negative, after a delivery that was dropped.
C27_Witness ==
    \E j, k \in 1..Len(deliveries) :
        /\ Verified(deliveries[j]) /\ deliveries[j].calls = <<>>
        /\ Len(deliveries[k].calls) = 1
        /\ I64IsNeg(deliveries[k].endCycles)
        /\ I64IsNeg(deliveries[k].calls[1].params.CancelAt)
        /\ deliveries[k].outcome = "scheduled"

\* C28: every PaymentLinkData ProcessModalSubmission passes to a generator
\* has Amount > 0, a service name, a reference number, an interval, an
\* interval count >= 1 and EndDateCycles >= 0; and a submission whose callback
\* identifier names an unknown provider is answered with an error, no
\* generator invoked.
C28_RequestInvariants ==
    /\ (gen.pc # "idle" /\ gen.submission # 0) =>
           /\ ~gen.data.Amount.nan /\ gen.data.Amount.sign = 1
           /\ gen.data.ServiceName # <<>>
           /\ gen.data.ReferenceNumber # <<>>
           /\ gen.data.Interval # <<>>
           /\ I64Positive(gen.data.IntervalCount)
           /\ ~I64IsNeg(gen.data.EndDateCycles)
    /\ \A i \in 1..Len(submitted) :
           submitted[i].values.provider \notin {ProviderStripe, ProviderAirwallex} =>
               /\ NothingBuiltFor(i)
               /\ resp.action = "errors"

(***************************************************************************)
(* Properties of the provider credential.                                  *)
(***************************************************************************)
\* C23: the provider credential is never changed at runtime, and every
\* provider call of an invocation is made with the key of that invocation,
\* whatever the other invocations do.
C23_NoSharedMutableState ==
    /\ [](\A k \in 1..Len(keyCalls) : keyCalls[k].key = keyProc[keyCalls[k].proc].key)
    /\ [][stripeKey' = stripeKey]_vars

(***************************************************************************)
(* Properties of the invoice numbers.                                      *)
(***************************************************************************)
\* C17: no two invoices sent carry the same auto-generated invoice number.
C17_AutoNumbersDistinct ==
    \A i, j \in 1..Len(invoicesSent) :
        (i < j /\ invoicesSent[i].auto /\ invoicesSent[j].auto) =>
            invoicesSent[i].number # invoicesSent[j].number

\* the messages of the channel that GetLastInvoiceNumber reads as a number
CounterMessages ==
    {i \in 1..Len(counterChannel) : ParseInt(TrimSpace(counterChannel[i])).err = "none"}

\* every counter message is the number of an invoice that was sent, posted by
\* a submission that has gone past the upload
PostedAfterSuccess ==
    \A i \in CounterMessages :
        \E k \in 1..Len(invoicesSent) :
            /\ ParseInt(invoicesSent[k].number) = ParseInt(TrimSpace(counterChannel[i]))
            /\ invoiceProc[invoicesSent[k].by].pc = "done"

\* a step in which a submission is rejected (parsing, required fields) or fails
\* (PDF, upload) posts nothing, and the last number read stays what it was
FailureLeavesCounter ==
    \A p \in InvoiceProcs :
        (invoiceProc[p].pc # invoiceProc'[p].pc
         /\ invoiceProc'[p].pc \in {"rejected", "failed"}) =>
            /\ counterChannel' = counterChannel
            /\ GetLastInvoiceNumber(counterChannel', TRUE)
                   = GetLastInvoiceNumber(counterChannel, TRUE)

\* the last number read changes only in the step after the upload
CounterMovesOnlyAfterSend ==
    GetLastInvoiceNumber(counterChannel', TRUE) # GetLastInvoiceNumber(counterChannel, TRUE) =>
        \E p \in InvoiceProcs : invoiceProc[p].pc = "sent" /\ invoiceProc'[p].pc = "done"

\* C29: the invoice number is posted to the counter channel only by a
\* submission whose parsing, validation, PDF and upload succeeded; a submission
\* that fails at one of them posts no counter message, and the next read of the
\* last number returns what it returned before.
C29_CounterOnlyAfterSuccess ==
    /\ []PostedAfterSuccess
    /\ [][FailureLeavesCounter /\ CounterMovesOnlyAfterSend]_vars

\* C29: one submission has sent invoice 1001 and posted it, a second one
\* numbered 1002 failed at the upload and a read still returns 1001.
C29_Witness ==
    \E p, q \in InvoiceProcs :
        /\ p # q
        /\ invoiceProc[p].pc = "done" /\ invoiceProc[p].number = <<"1", "0", "0", "1">>
        /\ invoiceProc[q].pc = "failed" /\ invoiceProc[q].number = <<"1", "0", "0", "2">>
        /\ CounterMessages # {}
        /\ GetLastInvoiceNumber(counterChannel, TRUE) = I64(1001)

(***************************************************************************)
(* Properties of the server.                                               *)
(***************************************************************************)
\* C30: every customer.subscription.created request that the running server
\* receives at /stripe/webhook is routed to HandleWebhook, which records the
\* delivery of that subscription's event.
C30_WebhookRouted ==
    \A k \in 1..Len(httpLog) :
        httpLog[k].path = WebhookPath =>
            /\ httpLog[k].handler = "HandleWebhook"
            /\ \E d \in 1..Len(deliveries) : deliveries[d].req.event.id = httpLog[k].id

====
